---- MODULE Spec2Model ----
(***************************************************************************)
(* Model of the Backlog webhook bot (src/src/backlog_bot): the             *)
(* lambda_handler pipeline of handler.py with the helpers of commands.py   *)
(* and idempotency.py, run by up to NSlots concurrent invocations against  *)
(* one idempotency store and one tracker.                                  *)
(***************************************************************************)
EXTENDS Integers, Sequences, FiniteSets, TLC

(***************************************************************************)
(* Python / JSON values.  A value is a record tagged with its type:        *)
(* "null" (None), "int", "str" (a string kept whole), "text" (a string     *)
(* kept as its sequence of characters), "dict" (a function from keys to    *)
(* values) and "list".                                                     *)
(***************************************************************************)
Null == [t |-> "null"]

Str(s) == [t |-> "str", s |-> s]

Text(c) == [t |-> "text", c |-> c]

Num(n) == [t |-> "int", n |-> n]

Dict(d) == [t |-> "dict", d |-> d]

List(l) == [t |-> "list", l |-> l]

EmptyDict == Dict(<<>>)

IsStr(j) == j.t \in {"str", "text"}

\* Python truthiness ("if x", "x or y", "not x").
Truthy(j) ==
  CASE j.t = "null" -> FALSE
    [] j.t = "int" -> j.n # 0
    [] j.t = "str" -> j.s # ""
    [] j.t = "text" -> Len(j.c) > 0
    [] j.t = "dict" -> DOMAIN j.d # {}
    [] j.t = "list" -> Len(j.l) > 0

\* "x or y"
Or(x, y) == IF Truthy(x) THEN x ELSE y

\* dict.get(k): the value, None when the key is absent.
Get(j, k) == IF k \in DOMAIN j.d THEN j.d[k] ELSE Null

\* dict.get(k, default)
GetDefault(j, k, dflt) == IF k \in DOMAIN j.d THEN j.d[k] ELSE dflt

\* Largest number the payloads of the model carry.
MaxNum == 20

\* str(x) of a string or an integer.
PyStr(j) ==
  CASE j.t = "str" -> j.s
    [] j.t = "int" -> ToString(j.n)
    [] j.t = "null" -> "None"

\* str.isdigit(): non-empty and every character a digit.
IsDigitStr(s) == \E n \in 0..MaxNum : s = ToString(n)

\* int(x): <<TRUE, n>>, or <<FALSE, 0>> when int() raises.
PyInt(j) ==
  CASE j.t = "int" -> <<TRUE, j.n>>
    [] j.t = "str" ->
         IF IsDigitStr(j.s)
         THEN <<TRUE, CHOOSE n \in 0..MaxNum : j.s = ToString(n)>>
         ELSE <<FALSE, 0>>
    [] OTHER -> <<FALSE, 0>>

(***************************************************************************)
(* Characters and texts.                                                   *)
(***************************************************************************)
Alphabet ==
  <<"a", "b", "c", "d", "e", "f", "g", "h", "i", "j", "k", "l", "m",
    "n", "o", "p", "q", "r", "s", "t", "u", "v", "w", "x", "y", "z">>

Capitals ==
  <<"A", "B", "C", "D", "E", "F", "G", "H", "I", "J", "K", "L", "M",
    "N", "O", "P", "Q", "R", "S", "T", "U", "V", "W", "X", "Y", "Z">>

LowerLetters == {Alphabet[i] : i \in 1..26}

UpperLetters == {Capitals[i] : i \in 1..26}

\* str.lower() of one character.
Lower(c) ==
  IF c \in UpperLetters THEN Alphabet[CHOOSE i \in 1..26 : Capitals[i] = c] ELSE c

Digits == {"0", "1", "2", "3", "4", "5", "6", "7", "8", "9"}

\* \w of a str pattern: letters (of any script), digits and the underscore.
IsWordChar(c) == c \in LowerLetters \cup UpperLetters \cup Digits \cup {"_"}

Whitespace == {" ", "\n", "\t"}

RECURSIVE LStrip(_)
LStrip(s) ==
  IF s # <<>> /\ Head(s) \in Whitespace THEN LStrip(Tail(s)) ELSE s

RECURSIVE RStrip(_)
RStrip(s) ==
  IF s # <<>> /\ s[Len(s)] \in Whitespace
  THEN RStrip(SubSeq(s, 1, Len(s) - 1))
  ELSE s

\* str.strip()
Strip(s) == RStrip(LStrip(s))

(***************************************************************************)
(* commands.py                                                             *)
(***************************************************************************)
\* The alternatives of CMD_RE, in the order of the pattern.
Keywords ==
  << <<"s", "u", "m", "m", "a", "r", "y">>,
     <<"a", "s", "k">>,
     <<"u", "p", "d", "a", "t", "e">> >>

KeywordName == <<"summary", "ask", "update">>

\* CMD_RE matches at position i with alternative k: the slash, the keyword
\* in any case, then \b (the end of the text or a non-word character).
MatchAt(text, i, k) ==
  LET kw == Keywords[k] IN
  /\ text[i] = "/"
  /\ i + Len(kw) <= Len(text)
  /\ \A j \in 1..Len(kw) : Lower(text[i + j]) = kw[j]
  /\ \/ i + Len(kw) = Len(text)
     \/ ~IsWordChar(text[i + Len(kw) + 1])

MatchPositions(text) ==
  {i \in 1..Len(text) : \E k \in 1..Len(Keywords) : MatchAt(text, i, k)}

NoCmd == [cmd |-> "none"]

\* parse_command taking the last match of CMD_RE.
parse_command_LastMatch(content) ==
  IF ~Truthy(content) THEN NoCmd
  ELSE LET text == content.c IN
       IF MatchPositions(text) = {} THEN NoCmd
       ELSE LET i == CHOOSE p \in MatchPositions(text) :
                       \A q \in MatchPositions(text) : p >= q
                k == CHOOSE a \in 1..Len(Keywords) : MatchAt(text, i, a)
                args == Strip(SubSeq(text, i + Len(Keywords[k]) + 1, Len(text)))
            IN IF KeywordName[k] = "ask"
               THEN [cmd |-> "ask", question |-> Strip(args)]
               ELSE [cmd |-> KeywordName[k]]

\* parse_command: the first match of CMD_RE; NoCmd stands for None.
parse_command(content) ==
  IF ~Truthy(content) THEN NoCmd
  ELSE LET text == content.c IN
       IF MatchPositions(text) = {} THEN NoCmd
       ELSE LET i == CHOOSE p \in MatchPositions(text) :
                       \A q \in MatchPositions(text) : p <= q
                k == CHOOSE a \in 1..Len(Keywords) : MatchAt(text, i, a)
                args == Strip(SubSeq(text, i + Len(Keywords[k]) + 1, Len(text)))
            IN IF KeywordName[k] = "ask"
               THEN [cmd |-> "ask", question |-> Strip(args)]
               ELSE [cmd |-> KeywordName[k]]

\* parse_command calls CMD_RE.search on any truthy value: a truthy value
\* that is not a string makes it raise TypeError.
parse_command_raises(content) == Truthy(content) /\ content.t # "text"

\* is_bot_mentioned looking at the first notification only.
is_bot_mentioned_FirstOnly(comment, bot_user_id) ==
  LET notifs == Or(Get(comment, "notifications"), List(<<>>))
      user == Or(Get(notifs.l[1], "user"), EmptyDict)
      r == PyInt(GetDefault(user, "id", Num(-1)))
  IN Len(notifs.l) > 0 /\ user.t = "dict" /\ r[1] /\ r[2] = bot_user_id

\* One notification of is_bot_mentioned: TRUE when int(user id) equals the
\* bot id; an exception inside the try block skips the notification.
NotifMatches(notif, bot_user_id) ==
  LET user == Or(Get(notif, "user"), EmptyDict) IN
  IF user.t # "dict" THEN FALSE
  ELSE LET r == PyInt(GetDefault(user, "id", Num(-1))) IN
       r[1] /\ r[2] = bot_user_id

is_bot_mentioned(comment, bot_user_id) ==
  LET notifs == Or(Get(comment, "notifications"), List(<<>>)) IN
  \E n \in 1..Len(notifs.l) : NotifMatches(notifs.l[n], bot_user_id)

extract_issue_key(issue) ==
  LET key == Or(Get(issue, "issueKey"), Get(issue, "key")) IN
  IF IsStr(key) /\ Truthy(key) THEN key.s
  ELSE PyStr(Or(Get(issue, "id"), Str("")))

(***************************************************************************)
(* context_fetch.py                                                        *)
(***************************************************************************)
LowerSeq(s) == [i \in 1..Len(s) |-> Lower(s[i])]

\* str.startswith
StartsWith(s, p) == Len(p) <= Len(s) /\ SubSeq(s, 1, Len(p)) = p

\* str.endswith
EndsWith(s, p) == Len(p) <= Len(s) /\ SubSeq(s, Len(s) - Len(p) + 1, Len(s)) = p

\* The first position of s holding a character of cs, 0 when there is none.
FirstOf(s, cs) ==
  LET hits == {i \in 1..Len(s) : s[i] \in cs} IN
  IF hits = {} THEN 0 ELSE CHOOSE i \in hits : \A j \in hits : i <= j

\* str.splitlines(): the lines, without a last empty one.
RECURSIVE SplitLines(_)
SplitLines(s) ==
  IF s = <<>> THEN <<>>
  ELSE LET i == FirstOf(s, {"\n"}) IN
       IF i = 0 THEN <<s>>
       ELSE <<SubSeq(s, 1, i - 1)>> \o SplitLines(SubSeq(s, i + 1, Len(s)))

\* str.split(): the maximal runs of non-whitespace characters.
RECURSIVE SplitWords(_)
SplitWords(s) ==
  LET t == LStrip(s) IN
  IF t = <<>> THEN <<>>
  ELSE LET i == FirstOf(t, Whitespace) IN
       IF i = 0 THEN <<t>>
       ELSE <<SubSeq(t, 1, i - 1)>> \o SplitWords(SubSeq(t, i + 1, Len(t)))

\* "".join(chars): the text as one string.
RECURSIVE Join(_)
Join(s) == IF s = <<>> THEN "" ELSE Head(s) \o Join(Tail(s))

DigitValue(c) ==
  CASE c = "0" -> 0 [] c = "1" -> 1 [] c = "2" -> 2 [] c = "3" -> 3
    [] c = "4" -> 4 [] c = "5" -> 5 [] c = "6" -> 6 [] c = "7" -> 7
    [] c = "8" -> 8 [] c = "9" -> 9

RECURSIVE DigitsValue(_)
DigitsValue(s) ==
  IF s = <<>> THEN 0
  ELSE 10 * DigitsValue(SubSeq(s, 1, Len(s) - 1)) + DigitValue(s[Len(s)])

\* int(text): <<TRUE, n>>, or <<FALSE, 0>> when int() raises.
IntOfText(s) ==
  LET t == Strip(s) IN
  IF t # <<>> /\ \A i \in 1..Len(t) : t[i] \in Digits
  THEN <<TRUE, DigitsValue(t)>>
  ELSE <<FALSE, 0>>

SchemeChars == LowerLetters \cup UpperLetters \cup Digits \cup {"+", "-", "."}

\* urlparse, the scheme: the text before the first colon when it starts with
\* a letter and holds scheme characters only; [scheme, rest].
SplitScheme(url) ==
  LET c == FirstOf(url, {":"}) IN
  IF /\ c > 1
     /\ url[1] \in LowerLetters \cup UpperLetters
     /\ \A i \in 1..(c - 1) : url[i] \in SchemeChars
  THEN [scheme |-> LowerSeq(SubSeq(url, 1, c - 1)), rest |-> SubSeq(url, c + 1, Len(url))]
  ELSE [scheme |-> <<>>, rest |-> url]

\* urlparse, the network location: after "//", up to the first of / ? #;
\* [netloc, tail].
SplitNetloc(rest) ==
  IF ~StartsWith(rest, <<"/", "/">>) THEN [netloc |-> <<>>, tail |-> rest]
  ELSE LET e == FirstOf(SubSeq(rest, 3, Len(rest)), {"/", "?", "#"}) IN
       IF e = 0 THEN [netloc |-> SubSeq(rest, 3, Len(rest)), tail |-> <<>>]
       ELSE [netloc |-> SubSeq(rest, 3, e + 1), tail |-> SubSeq(rest, e + 2, Len(rest))]

\* urlparse, the fragment: the text after the first #; [nofrag, fragment].
SplitFragment(tail) ==
  LET h == FirstOf(tail, {"#"}) IN
  IF h = 0 THEN [nofrag |-> tail, fragment |-> <<>>]
  ELSE [nofrag |-> SubSeq(tail, 1, h - 1), fragment |-> SubSeq(tail, h + 1, Len(tail))]

\* urlparse, the path: the text before the first ?.
SplitQuery(nofrag) ==
  LET q == FirstOf(nofrag, {"?"}) IN
  IF q = 0 THEN nofrag ELSE SubSeq(nofrag, 1, q - 1)

\* urllib.parse.urlparse: scheme (lower-cased), netloc, path and fragment.
UrlParts(s, n) ==
  [scheme |-> s.scheme, netloc |-> n.netloc,
   path |-> SplitQuery(SplitFragment(n.tail).nofrag),
   fragment |-> SplitFragment(n.tail).fragment]

urlparse(url) == UrlParts(SplitScheme(url), SplitNetloc(SplitScheme(url).rest))

is_http_url(s) ==
  LET u == urlparse(s) IN
  u.scheme \in {<<"h", "t", "t", "p">>, <<"h", "t", "t", "p", "s">>} /\ u.netloc # <<>>

ContextPrefix == <<"c", "o", "n", "t", "e", "x", "t", ":">>

\* The lines of the text that start, stripped and lower-cased, with "context:".
ContextLines(lines) ==
  {i \in 1..Len(lines) : StartsWith(LowerSeq(Strip(lines[i])), ContextPrefix)}

\* extract_context_urls reading the first "context:" line.
extract_context_urls_FirstLine(content) ==
  IF ~Truthy(content) THEN <<>>
  ELSE LET lines == SplitLines(content.c)
           hits == ContextLines(lines)
       IN IF hits = {} THEN <<>>
          ELSE LET line == lines[CHOOSE i \in hits : \A j \in hits : i <= j]
                   c == FirstOf(line, {":"})
                   parts == SplitWords(Strip(SubSeq(line, c + 1, Len(line))))
               IN SelectSeq(parts, is_http_url)

\* extract_context_urls: the http(s) URLs of the last "context:" line.
extract_context_urls(content) ==
  IF ~Truthy(content) THEN <<>>
  ELSE LET lines == SplitLines(content.c)
           hits == ContextLines(lines)
       IN IF hits = {} THEN <<>>
          ELSE LET line == lines[CHOOSE i \in hits : \A j \in hits : i >= j]
                   c == FirstOf(line, {":"})
                   parts == SplitWords(Strip(SubSeq(line, c + 1, Len(line))))
               IN SelectSeq(parts, is_http_url)

\* allowlisted: allowed_hosts is the tuple of configured hosts.
allowlisted(url, allowed_hosts) ==
  IF allowed_hosts = <<>> THEN TRUE
  ELSE LET host == urlparse(url).netloc IN
       \E i \in 1..Len(allowed_hosts) :
          host = allowed_hosts[i] \/ EndsWith(host, <<".">> \o allowed_hosts[i])

ViewPrefix == <<"/", "v", "i", "e", "w", "/">>

WikiPrefix == <<"/", "w", "i", "k", "i", "/">>

CommentPrefix == <<"c", "o", "m", "m", "e", "n", "t", "-">>

\* The text after the last occurrence of sep in s (s.split(sep)[-1]).
RECURSIVE AfterLast(_, _)
AfterLast(s, sep) ==
  LET hits == {i \in 1..(Len(s) - Len(sep) + 1) : SubSeq(s, i, i + Len(sep) - 1) = sep} IN
  IF hits = {} THEN s
  ELSE LET i == CHOOSE a \in hits : \A b \in hits : a <= b IN
       AfterLast(SubSeq(s, i + Len(sep), Len(s)), sep)

RECURSIVE RStripSlash(_)
RStripSlash(s) ==
  IF s # <<>> /\ s[Len(s)] = "/" THEN RStripSlash(SubSeq(s, 1, Len(s) - 1)) ELSE s

\* parse_backlog_issue_url: [key, has_comment, comment]; key <<>> and
\* has_comment FALSE stand for None.
parse_backlog_issue_url(url, backlog_base_url) ==
  LET u == urlparse(url)
      base == urlparse(backlog_base_url)
      none == [key |-> <<>>, is_none |-> TRUE, has_comment |-> FALSE, comment |-> 0]
  IN IF u.netloc # base.netloc THEN none
     ELSE IF ~StartsWith(u.path, ViewPrefix) THEN none
     ELSE LET issue_key == Strip(AfterLast(u.path, ViewPrefix))
              d == FirstOf(u.fragment, {"-"})
              n == IntOfText(SubSeq(u.fragment, d + 1, Len(u.fragment)))
              has == StartsWith(u.fragment, CommentPrefix) /\ n[1]
          IN [key |-> issue_key, is_none |-> FALSE, has_comment |-> has,
              comment |-> IF has THEN n[2] ELSE 0]

\* parse_backlog_wiki_url: <<TRUE, id>>, or <<FALSE, 0>> for None.
parse_backlog_wiki_url(url, backlog_base_url) ==
  LET u == urlparse(url)
      base == urlparse(backlog_base_url)
  IN IF u.netloc # base.netloc THEN <<FALSE, 0>>
     ELSE IF ~StartsWith(u.path, WikiPrefix) THEN <<FALSE, 0>>
     ELSE IntOfText(AfterLast(RStripSlash(u.path), <<"/">>))

\* The length of text[:max_chars - 1] + "…" when the text is longer than
\* max_chars, else of the text (backlog_issue_to_text, backlog_wiki_to_text);
\* a negative slice bound counts from the end.
TruncatedLen(len, max_chars) ==
  IF len > max_chars
  THEN (IF max_chars - 1 >= 0
        THEN (IF max_chars - 1 < len THEN max_chars - 1 ELSE len)
        ELSE (IF len + (max_chars - 1) > 0 THEN len + (max_chars - 1) ELSE 0)) + 1
  ELSE len

\* s[:k], a negative k counting from the end.
SlicePrefix(s, k) ==
  IF k >= 0 THEN SubSeq(s, 1, IF k < Len(s) THEN k ELSE Len(s))
  ELSE SubSeq(s, 1, IF Len(s) + k > 0 THEN Len(s) + k ELSE 0)

\* The truncation marker, one character (U+2026 in the source).
Ellipsis == "~"

\* text[: max_chars - 1] + marker when the text is longer than max_chars.
Truncate(text, max_chars) ==
  IF Len(text) > max_chars
  THEN SlicePrefix(text, max_chars - 1) \o <<Ellipsis>>
  ELSE text

\* sep.join(parts)
RECURSIVE JoinWith(_, _)
JoinWith(parts, sep) ==
  IF parts = <<>> THEN <<>>
  ELSE IF Len(parts) = 1 THEN parts[1]
  ELSE parts[1] \o sep \o JoinWith(Tail(parts), sep)

\* The characters of a label of the flattened text; the labels of the
\* source are Japanese words followed by ": ".
Chars(str) ==
  CASE str = "Backlog Issue " ->
         <<"B", "a", "c", "k", "l", "o", "g", " ", "I", "s", "s", "u", "e", " ">>
    [] str = "Backlog Wiki" ->
         <<"B", "a", "c", "k", "l", "o", "g", " ", "W", "i", "k", "i">>
    [] str = "title: " -> <<"T", "T", ":", " ">>
    [] str = "description: " -> <<"D", "D", ":", " ">>
    [] str = "status: " -> <<"S", "S", ":", " ">>
    [] str = "fields: " -> <<"F", "F", "F", "F", "F", ":", " ">>
    [] str = "comments:" -> <<"C", "C", "C", "C", ":">>
    [] str = "project: " -> <<"P", "P", "P", "P", "P", "P", ":", " ">>
    [] str = "name: " -> <<"N", "N", "N", "N", ":", " ">>
    [] str = "body:" -> <<"B", "B", ":">>
    [] str = "attachments:" -> <<"A", "A", ":">>

\* One line per comment of backlog_issue_to_text: "- [created] author: content",
\* the comments other than only_comment_id left out (0 stands for None).
RECURSIVE CommentLines(_, _)
CommentLines(comments, only_comment_id) ==
  IF comments = <<>> THEN <<>>
  ELSE LET c == Head(comments)
           line == <<"-", " ", "[">> \o c.created \o <<"]", " ">> \o c.author
                     \o <<":", " ">> \o Strip(c.content)
       IN (IF only_comment_id # 0 /\ c.id # only_comment_id THEN <<>> ELSE <<line>>)
            \o CommentLines(Tail(comments), only_comment_id)

\* The parts of backlog_issue_to_text before the join; the fields priority,
\* assignee and dueDate are absent from the issues of the model.
IssueParts(issue, comments, only_comment_id) ==
  <<Chars("Backlog Issue ") \o issue.issueKey>>
  \o (IF issue.summary # <<>> THEN <<Chars("title: ") \o issue.summary>> ELSE <<>>)
  \o (IF issue.description # <<>>
      THEN <<Chars("description: ") \o issue.description>> ELSE <<>>)
  \o (IF issue.status # <<>>
      THEN <<Chars("fields: ") \o Chars("status: ") \o issue.status>> ELSE <<>>)
  \o (IF comments # <<>>
      THEN <<Chars("comments:")>> \o CommentLines(comments, only_comment_id)
      ELSE <<>>)

backlog_issue_to_text(issue, comments, max_chars, only_comment_id) ==
  Truncate(JoinWith(IssueParts(issue, comments, only_comment_id), <<"\n">>), max_chars)

\* One line per attachment of backlog_wiki_to_text: "- name (size)".
RECURSIVE AttachmentLines(_)
AttachmentLines(attachments) ==
  IF attachments = <<>> THEN <<>>
  ELSE <<Strip(<<"-", " ">> \o Head(attachments).name \o <<" ", "(">>
                 \o Head(attachments).size \o <<")">>)>>
       \o AttachmentLines(Tail(attachments))

\* The parts of backlog_wiki_to_text before the join; created, updated and
\* their users are absent from the pages of the model.
WikiParts(wiki, attachments) ==
  <<Chars("Backlog Wiki")>>
  \o (IF wiki.project # <<>> THEN <<Chars("project: ") \o wiki.project>> ELSE <<>>)
  \o (IF wiki.name # <<>> THEN <<Chars("name: ") \o wiki.name>> ELSE <<>>)
  \o (IF wiki.content # <<>> THEN <<Chars("body:"), wiki.content>> ELSE <<>>)
  \o (IF attachments # <<>>
      THEN <<Chars("attachments:")>> \o AttachmentLines(attachments) ELSE <<>>)

backlog_wiki_to_text(wiki, attachments, max_chars) ==
  Truncate(JoinWith(SelectSeq(WikiParts(wiki, attachments), LAMBDA q : q # <<>>),
                    <<"\n">>), max_chars)

(***************************************************************************)
(* handler.py: helpers                                                     *)
(***************************************************************************)
\* str.lower() of the header names the model uses.
LowerName(n) ==
  CASE n = "X-Webhook-Secret" -> "x-webhook-secret"
    [] n = "X-WEBHOOK-SECRET" -> "x-webhook-secret"
    [] n = "Content-Type" -> "content-type"
    [] OTHER -> n

\* _get_header comparing the names as they are written.
_get_header_CaseSensitive(event, name) ==
  LET hs == event.headers
      hits == {i \in 1..Len(hs) : hs[i][1] = name}
  IN IF hits = {} THEN Null
     ELSE hs[CHOOSE i \in hits : \A j \in hits : i <= j][2]

\* _get_header: the value of the first header whose lower-cased name equals
\* the lower-cased name asked for; headers is the dict in iteration order.
_get_header(event, name) ==
  LET hs == event.headers
      hits == {i \in 1..Len(hs) : LowerName(hs[i][1]) = LowerName(name)}
  IN IF hits = {} THEN Null
     ELSE hs[CHOOSE i \in hits : \A j \in hits : i <= j][2]

\* _get_query_param: queryStringParameters first, then the parts of
\* rawQueryString; a part is [k, v] for the text "k=v".
_get_query_param(event, name) ==
  LET qs == Or(event.qs, EmptyDict)
      val == IF qs.t = "dict" THEN Get(qs, name) ELSE Null
      raw == event.raw
      hits == {i \in 1..Len(raw) : raw[i].k = name}
  IN IF val.t # "null" THEN val
     ELSE IF hits = {} THEN Null
     ELSE Str(raw[CHOOSE i \in hits : \A j \in hits : i <= j].v)

\* _get_body: <<raised, payload>>.  base64.b64decode and bytes.decode are
\* outside the try block, json.loads is inside it.
_get_body(event) ==
  LET b == event.body IN
  IF event.b64 /\ b.kind = "badb64" THEN <<TRUE, Null>>
  ELSE IF event.b64 /\ b.kind = "badutf8" THEN <<TRUE, Null>>
  ELSE IF b.kind = "json" THEN <<FALSE, b.v>>
  ELSE <<FALSE, EmptyDict>>

\* The issue key composed from project.projectKey and a numeric id.
ComposeKey(pk, n) == PyStr(pk) \o "-" \o PyStr(n)

\* The isdigit() test left out.
IsNumeric_Any(j) == j.t \in {"int", "str"}

IsNumeric(j) == j.t \in {"int", "str"} /\ IsDigitStr(PyStr(j))

\* _extract_comment_and_issue: <<comment, issue>>, EmptyDict for {}.
_extract_comment_and_issue(payload) ==
  LET content == Or(Get(payload, "content"), EmptyDict) IN
  IF content.t # "dict" THEN <<EmptyDict, EmptyDict>>
  ELSE
    LET comment_container == Get(content, "comment")
        is_dict == comment_container.t = "dict"
        ct == IF is_dict THEN Get(comment_container, "content") ELSE Null
        comment_text == IF IsStr(ct) THEN ct ELSE Null
        comment_obj0 == IF is_dict THEN comment_container ELSE EmptyDict
        ci == Get(content, "issue")
        proj == Or(Get(payload, "project"), EmptyDict)
        pk == IF proj.t = "dict" THEN Get(proj, "projectKey") ELSE Null
        kid == Get(content, "key_id")
        cid == Get(content, "id")
        issue_key_val ==
          IF ci.t = "dict" /\ Truthy(Get(ci, "issueKey"))
          THEN Str(PyStr(Get(ci, "issueKey")))
          ELSE IF Truthy(pk) /\ kid.t # "null" /\ IsNumeric(kid)
          THEN Str(ComposeKey(pk, kid))
          ELSE IF Truthy(pk) /\ cid.t # "null" /\ IsNumeric(cid)
          THEN Str(ComposeKey(pk, cid))
          ELSE Null
        comment_obj ==
          IF ~Truthy(comment_obj0) /\ Truthy(comment_text)
          THEN Dict([content |-> comment_text])
          ELSE comment_obj0
        issue_obj ==
          IF Truthy(issue_key_val)
          THEN Dict([issueKey |-> issue_key_val])
          ELSE EmptyDict
    IN <<comment_obj, issue_obj>>

(***************************************************************************)
(* Configuration (config.py, load_settings) and the BACKLOG_API_KEY of     *)
(* _load_secrets.  An unset or empty variable is "".                       *)
(***************************************************************************)
\* Largest LLM_MAX_RETRIES the model configures.
MaxRetries == 2

\* BACKLOG_BASE_URL of the model.
BaseUrl == <<"h", "t", "t", "p", "s", ":", "/", "/", "b", ".", "i", "o">>

HostB == <<"b", ".", "i", "o">>

HostX == <<"x", ".", "i", "o">>

DefaultSettings ==
  [webhook_shared_secret |-> "secret",
   bot_user_id |-> 12,
   require_mention |-> TRUE,
   allowed_trigger_user_ids |-> {},
   idempotency_bucket |-> "b",
   llm_max_retries |-> 2,
   api_key |-> "x",
   backlog_base_url |-> BaseUrl,
   context_allowed_hosts |-> <<>>,
   context_url_max_bytes |-> 100,
   context_total_max_bytes |-> 200]

\* The configurations of the model: each stage's variables take all their
\* values while the other stages keep the values that let an event through.
SettingsSet ==
  {[DefaultSettings EXCEPT !.webhook_shared_secret = v] : v \in {"", "secret"}}
  \cup {[DefaultSettings EXCEPT !.require_mention = r, !.bot_user_id = b,
                                !.allowed_trigger_user_ids = a] :
          r \in BOOLEAN, b \in {0, 12}, a \in {{}, {7}}}
  \cup {[DefaultSettings EXCEPT !.idempotency_bucket = v, !.api_key = k] :
          v \in {"", "b"}, k \in {"", "x"}}
  \cup {[DefaultSettings EXCEPT !.llm_max_retries = n] : n \in -1..MaxRetries}
  \cup {[DefaultSettings EXCEPT !.context_allowed_hosts = h] :
          h \in {<<>>, <<HostB>>, <<HostX>>}}
  \cup {[DefaultSettings EXCEPT !.context_url_max_bytes = u,
                                !.context_total_max_bytes = t] :
          u \in {20, 100}, t \in {0, 50, 200}}

(***************************************************************************)
(* Webhook events.                                                         *)
(***************************************************************************)
TxtSummary == <<"@", "b", "o", "t", " ", "/", "s", "u", "m", "m", "a", "r", "y">>

TxtAsk == <<"@", "b", "o", "t", " ", "/", "a", "s", "k", " ", "w", "h", "o", "?", "\n">>

TxtUpdate == <<"/", "U", "P", "D", "A", "T", "E", " ", "n", "o", "w">>

TxtNoCmd == <<"h", "e", "l", "l", "o", " ", "/", "a", "s", "k", "i", "n", "g">>

\* A summary with two Backlog references and two URLs that are none.
TxtSummaryCtx == <<"/", "s", "u", "m", "m", "a", "r", "y", "\n", "c", "o", "n", "t", "e", "x", "t", ":", " ", "h", "t", "t", "p", "s", ":", "/", "/", "b", ".", "i", "o", "/", "v", "i", "e", "w", "/", "P", "-", "3", "#", "c", "o", "m", "m", "e", "n", "t", "-", "5", " ", "h", "t", "t", "p", "s", ":", "/", "/", "b", ".", "i", "o", "/", "w", "i", "k", "i", "/", "7", " ", "f", "t", "p", ":", "/", "/", "b", ".", "i", "o", "/", "w", "i", "k", "i", "/", "7">>

\* A question with a foreign URL and a wiki reference.
TxtAskCtx == <<"/", "a", "s", "k", " ", "w", "h", "y", "\n", "c", "o", "n", "t", "e", "x", "t", ":", " ", "h", "t", "t", "p", "s", ":", "/", "/", "x", ".", "i", "o", "/", "a", " ", "h", "t", "t", "p", "s", ":", "/", "/", "b", ".", "i", "o", "/", "w", "i", "k", "i", "/", "P", "/", "7">>

Mention(id) == List(<<Dict([user |-> Dict([id |-> Num(id)])])>>)

\* A comment object: id, content, notifications, createdUser.
CommentObj(id, txt, notified, author) ==
  Dict([id |-> Num(id), content |-> Text(txt),
        notifications |-> Mention(notified),
        createdUser |-> Dict([id |-> Num(author)])])

\* A comment object with the given notifications, the author's id a string.
CommentWith(txt, notifications) ==
  Dict([id |-> Num(10), content |-> Text(txt), notifications |-> notifications,
        createdUser |-> Dict([id |-> Str("7")])])

\* Nested shape, issue key in content.issue.issueKey.
NestedIssueKey(comment, key) ==
  Dict([type |-> Num(3),
        content |-> Dict([comment |-> comment,
                          issue |-> Dict([issueKey |-> Str(key), id |-> Num(2)])])])

\* Nested shape with project.projectKey, content.key_id and content.id.
NestedProject(comment, pk, kid, cid) ==
  Dict([type |-> Num(3),
        project |-> Dict([projectKey |-> pk]),
        content |-> Dict([comment |-> comment, key_id |-> kid, id |-> cid])])

\* Flat shape: top-level comment and issue (tests/test_handler_unit.py).
Flat(comment, key) ==
  Dict([comment |-> comment,
        issue |-> Dict([issueKey |-> Str(key), id |-> Num(1)])])

\* The payload of tests/test_handler_failure.py.
PayloadSummary == NestedIssueKey(CommentObj(10, TxtSummary, 12, 12), "P-2")

PayloadSummaryCtx == NestedIssueKey(CommentObj(12, TxtSummaryCtx, 12, 7), "P-2")

Payloads ==
  << PayloadSummary,
     NestedIssueKey(CommentObj(10, TxtAsk, 12, 7), "P-2"),
     NestedIssueKey(CommentObj(10, TxtUpdate, 12, 12), "P-2"),
     NestedIssueKey(CommentObj(10, TxtNoCmd, 12, 7), "P-2"),
     NestedIssueKey(CommentObj(10, TxtSummary, 11, 9), "P-2"),
     NestedIssueKey(Dict([id |-> Num(10), content |-> Text(TxtSummary)]), "P-2"),
     NestedIssueKey(Dict([id |-> Num(10)]), "P-2"),
     NestedIssueKey(Dict([content |-> Text(TxtSummary)]), "P-2"),
     NestedIssueKey(Dict([id |-> Num(0), content |-> Text(TxtSummary)]), "P-2"),
     NestedIssueKey(EmptyDict, "P-2"),
     NestedIssueKey(Text(TxtSummary), "P-2"),
     NestedProject(CommentObj(10, TxtSummary, 12, 7), Str("P"), Num(7), Num(5)),
     NestedProject(CommentObj(10, TxtSummary, 12, 7), Str("P"), Str("7"), Null),
     NestedProject(CommentObj(10, TxtSummary, 12, 7), Str("P"), Str("P-3"), Num(5)),
     NestedProject(CommentObj(10, TxtSummary, 12, 7), Str("P"), Null, Num(5)),
     NestedProject(CommentObj(10, TxtSummary, 12, 7), Str("P"), Str("P-3"), Null),
     NestedProject(CommentObj(10, TxtSummary, 12, 7), Null, Num(7), Num(5)),
     Dict([type |-> Num(3),
           project |-> Dict([projectKey |-> Str("P")]),
           content |-> Dict([comment |-> CommentObj(10, TxtSummary, 12, 7),
                             issue |-> Dict([issueKey |-> Str("P-2")]),
                             key_id |-> Num(7), id |-> Num(5)])]),
     PayloadSummaryCtx,
     NestedIssueKey(CommentWith(TxtSummary,
                      List(<<Dict([user |-> Dict([id |-> Num(11)])]),
                             Dict([user |-> Dict([id |-> Num(12)])])>>)), "P-2"),
     NestedIssueKey(CommentWith(TxtSummary,
                      List(<<Dict([user |-> Dict([id |-> Str("12")])])>>)), "P-2"),
     NestedIssueKey(CommentWith(TxtSummary,
                      List(<<Dict([user |-> Null]),
                             Dict([user |-> Dict([name |-> Str("bot")])])>>)), "P-2"),
     NestedIssueKey(CommentObj(12, TxtAskCtx, 12, 7), "P-2"),
     Flat(Dict([id |-> Num(9), content |-> Text(TxtSummary),
                notifications |-> Mention(12)]), "P-1"),
     Dict([type |-> Num(3), content |-> Str("text")]),
     EmptyDict,
     List(<<>>),
     Null >>

JsonBody(v) == [kind |-> "json", v |-> v]

\* The ways an event carries the shared secret.
AuthSet ==
  {[headers |-> h, qs |-> q, raw |-> r] :
      h \in {<<>>, << <<"X-Webhook-Secret", Str("secret")>> >>,
             << <<"x-webhook-secret", Str("secret")>> >>,
             << <<"X-Webhook-Secret", Str("wrong")>> >>,
             << <<"X-Webhook-Secret", Str("")>> >>},
      q \in {Null, Dict([token |-> Str("secret")]), Dict([token |-> Str("wrong")])},
      r \in {<<>>, <<[k |-> "token", v |-> "secret"]>>}}

GoodAuth ==
  [headers |-> << <<"X-Webhook-Secret", Str("secret")>> >>, qs |-> Null, raw |-> <<>>]

MkEvent(a, b64, body) ==
  [headers |-> a.headers, qs |-> a.qs, raw |-> a.raw, b64 |-> b64, body |-> body]

\* Every way of authenticating with two bodies, and every body with the
\* secret in the header.
EventSet ==
  {MkEvent(a, FALSE, JsonBody(Payloads[1])) : a \in AuthSet}
  \cup {MkEvent(a, TRUE, [kind |-> "badb64"]) : a \in AuthSet}
  \cup {MkEvent(GoodAuth, FALSE, JsonBody(Payloads[i])) : i \in 1..Len(Payloads)}
  \cup {MkEvent(GoodAuth, b, [kind |-> k]) :
          b \in BOOLEAN, k \in {"notjson", "none", "badutf8"}}

(***************************************************************************)
(* State.                                                                  *)
(***************************************************************************)
\* Invocations the hosting environment runs at the same time.
NSlots == 2

\* Invocations of one behaviour.
MaxInv == 2

Slots == 1..NSlots

VARIABLES
  settings,   \* the configuration load_settings() returns
  store,      \* the idempotency bucket: the markers put so far
  passed,     \* markers whose recording invocation has returned
  recorders,  \* Recorder(s) of every invocation that put its marker
  ninv,       \* invocations started so far
  inv,        \* slot -> the local state of the invocation running there
  fn          \* a call of a helper function on its own: arguments and result

vars == <<settings, store, passed, recorders, ninv, inv, fn>>

\* No helper function is called on its own.
NoEval == [op |-> "none", done |-> FALSE]

NoResp == [status |-> 0, kind |-> "none", val |-> ""]

Response(status, kind, val) == [status |-> status, kind |-> kind, val |-> val]

NoEvent == [headers |-> <<>>, qs |-> Null, raw |-> <<>>, b64 |-> FALSE,
            body |-> [kind |-> "none"]]

IdleInv ==
  [pc |-> "idle",
   id |-> 0,                \* the number of the invocation
   event |-> NoEvent,
   prior |-> {},            \* the markers in passed when the invocation began
   parsed |-> FALSE,        \* _get_body has run
   comment |-> EmptyDict,
   issue |-> EmptyDict,
   cmd |-> NoCmd,
   issue_key |-> "",
   comment_id |-> "",
   recorded |-> FALSE,      \* s3_record_if_new returned True
   puts_seen |-> {},        \* who had put the marker when head_object ran
   attempts |-> 0,          \* iterations of the retry loop so far
   urls |-> <<>>,               \* the context URLs the loop has not visited
   ctx_issue_key |-> "",        \* of the URL the loop is at
   used_context_urls |-> <<>>,
   context_texts |-> <<>>,      \* the length of each context text
   ctx_errors |-> <<>>,         \* the source of every context_fetch_error record
   reply_text |-> "",
   calls |-> <<>>,          \* the external calls made, in order
   log |-> <<>>,            \* the msg of every _log record, in order
   resp |-> NoResp]

\* One external call: the operation, its target, whether it returned, and
\* for post_comment the text posted.
Call(op, target, ok, text) == [op |-> op, target |-> target, ok |-> ok, text |-> text]

Marker(i) == inv[i].issue_key \o "/" \o inv[i].comment_id

\* What is known of an invocation that put its marker: its number, the
\* marker, and the issue key and the comment id the marker was built from.
Recorder(s) ==
  [id |-> inv[s].id, marker |-> Marker(s), issue_key |-> inv[s].issue_key,
   comment |-> Get(inv[s].comment, "id")]

\* The fixed apology of lambda_handler (error_text).
ErrorText == "error_text"

\* What the generation service answers.
ModelOutput == "OK"

\* The texts the generation service may answer: _invoke_messages returns
\* the text of the first content item, "" when there is none.
ModelOutputs == {ModelOutput, ""}

Init ==
  /\ settings \in SettingsSet
  /\ store = {}
  /\ passed = {}
  /\ recorders = {}
  /\ ninv = 0
  /\ inv = [s \in Slots |-> IdleInv]
  /\ fn = NoEval

\* The response returned without a log record.
Return_Silent(s, msg, r) ==
  [inv[s] EXCEPT !.pc = "done", !.resp = r]

\* The invocation returns response r after logging msg.
Return(s, msg, r) ==
  [inv[s] EXCEPT !.pc = "done", !.log = Append(@, msg), !.resp = r]

\* An exception leaves lambda_handler: the invocation ends without response.
Raise(s) == [inv[s] EXCEPT !.pc = "crashed"]

(***************************************************************************)
(* lambda_handler, one action per step.                                    *)
(***************************************************************************)
\* The hosting environment calls lambda_handler(event, context).
Invoke(s, e) ==
  /\ inv[s].pc = "idle"
  /\ \A r \in Slots : r < s => inv[r].pc # "idle"
  /\ ninv < MaxInv
  /\ ninv' = ninv + 1
  /\ inv' = [inv EXCEPT ![s] = [IdleInv EXCEPT !.pc = "auth", !.id = ninv + 1,
                                               !.event = e, !.prior = passed]]
  /\ UNCHANGED <<settings, store, passed, recorders, fn>>

\* The value compared with the secret: the header, else the query token.
Supplied(e) == Or(_get_header(e, "X-Webhook-Secret"), _get_query_param(e, "token"))

SecretMatches(supplied, secret) == supplied.t = "str" /\ supplied.s = secret

\* 1) Verify webhook secret.
VerifySecret(s) ==
  /\ inv[s].pc = "auth"
  /\ inv' = [inv EXCEPT ![s] =
       IF settings.webhook_shared_secret # ""
          /\ ~SecretMatches(Supplied(inv[s].event), settings.webhook_shared_secret)
       THEN Return(s, "auth_failed", Response(401, "error", "unauthorized"))
       ELSE [inv[s] EXCEPT !.pc = "parse"]]
  /\ UNCHANGED <<settings, store, passed, recorders, ninv, fn>>

\* 2) Parse body and normalize the payload.
ParseBody(s) ==
  /\ inv[s].pc = "parse"
  /\ LET b == _get_body(inv[s].event)
         payload == b[2]
         me == [inv[s] EXCEPT !.parsed = TRUE]
     IN inv' = [inv EXCEPT ![s] =
          IF b[1] \/ payload.t # "dict" THEN [me EXCEPT !.pc = "crashed"]
          ELSE LET ci == _extract_comment_and_issue(payload) IN
               IF ~Truthy(ci[1]) \/ ~Truthy(ci[2])
               THEN [me EXCEPT !.pc = "done",
                               !.log = Append(@, "ignored_no_comment_or_issue"),
                               !.resp = Response(200, "result", "ignored")]
               ELSE [me EXCEPT !.pc = "gate", !.comment = ci[1], !.issue = ci[2]]]
  /\ UNCHANGED <<settings, store, passed, recorders, ninv, fn>>

\* int((comment.get("createdUser") or {}).get("id", -1)), None on exception.
AuthorId(comment) ==
  LET u == Or(Get(comment, "createdUser"), EmptyDict) IN
  IF u.t # "dict" THEN <<FALSE, 0>> ELSE PyInt(GetDefault(u, "id", Num(-1)))

\* The gate with the mention demanded in both modes.
GatePasses_AlwaysMention(comment) ==
  LET a == AuthorId(comment) IN
  /\ ~(settings.bot_user_id # 0 /\ ~is_bot_mentioned(comment, settings.bot_user_id))
  /\ settings.require_mention
       \/ ~(settings.allowed_trigger_user_ids # {}
            /\ ~(a[1] /\ a[2] \in settings.allowed_trigger_user_ids))

\* The gate lets the comment through.
GatePasses(comment) ==
  IF settings.require_mention
  THEN ~(settings.bot_user_id # 0 /\ ~is_bot_mentioned(comment, settings.bot_user_id))
  ELSE LET a == AuthorId(comment) IN
       ~(settings.allowed_trigger_user_ids # {}
         /\ ~(a[1] /\ a[2] \in settings.allowed_trigger_user_ids))

\* 3) Mention / author gate.
Gate(s) ==
  /\ inv[s].pc = "gate"
  /\ inv' = [inv EXCEPT ![s] =
       IF GatePasses(inv[s].comment) THEN [inv[s] EXCEPT !.pc = "command"]
       ELSE Return(s, IF settings.require_mention THEN "ignored_no_mention"
                      ELSE "ignored_author_not_allowed",
                   Response(200, "result", "ignored"))]
  /\ UNCHANGED <<settings, store, passed, recorders, ninv, fn>>

\* Command detection with the existence check of the marker made before the
\* command is looked at.
ParseCommand_ChecksStoreFirst(s) ==
  /\ inv[s].pc = "command"
  /\ LET content == Get(inv[s].comment, "content")
         cmd == parse_command(content)
         me == [inv[s] EXCEPT
                  !.issue_key = extract_issue_key(inv[s].issue),
                  !.comment_id = PyStr(Or(Get(inv[s].comment, "id"), Str(""))),
                  !.calls = Append(@, Call("head_object", "", FALSE, "missing"))]
     IN inv' = [inv EXCEPT ![s] =
          IF parse_command_raises(content) THEN Raise(s)
          ELSE IF cmd.cmd = "none"
          THEN [me EXCEPT !.pc = "done", !.log = Append(@, "ignored_no_command"),
                          !.resp = Response(200, "result", "ignored")]
          ELSE [inv[s] EXCEPT
                  !.pc = IF settings.idempotency_bucket # "" THEN "idem_head"
                         ELSE "secrets",
                  !.cmd = cmd,
                  !.issue_key = extract_issue_key(inv[s].issue),
                  !.comment_id = PyStr(Or(Get(inv[s].comment, "id"), Str("")))]]
  /\ UNCHANGED <<settings, store, passed, recorders, ninv, fn>>

\* Command detection, issue_key and comment_id.
ParseCommand(s) ==
  /\ inv[s].pc = "command"
  /\ LET content == Get(inv[s].comment, "content")
         cmd == parse_command(content)
     IN inv' = [inv EXCEPT ![s] =
          IF parse_command_raises(content) THEN Raise(s)
          ELSE IF cmd.cmd = "none"
          THEN Return(s, "ignored_no_command", Response(200, "result", "ignored"))
          ELSE [inv[s] EXCEPT
                  !.pc = IF settings.idempotency_bucket # "" THEN "idem_head"
                         ELSE "secrets",
                  !.cmd = cmd,
                  !.issue_key = extract_issue_key(inv[s].issue),
                  !.comment_id = PyStr(Or(Get(inv[s].comment, "id"), Str("")))]]
  /\ UNCHANGED <<settings, store, passed, recorders, ninv, fn>>

\* One iteration too many.
MaxAttempts_OffByOne ==
  (IF settings.llm_max_retries > 1 THEN settings.llm_max_retries ELSE 1) + 1

\* max(1, settings.llm_max_retries): the iterations of the retry loop.
MaxAttempts == IF settings.llm_max_retries > 1 THEN settings.llm_max_retries ELSE 1

\* 4) Idempotency, s3_record_if_new: head_object.  It returns when the
\* marker exists ("found"); it raises when the marker is missing
\* ("missing", the 404 of S3) or when the call fails ("error").  Whatever it
\* raises is swallowed and the marker is put.
IdemHead(s) ==
  /\ inv[s].pc = "idem_head"
  /\ \E outcome \in {"found", "missing", "error"} :
       /\ outcome = "found" => Marker(s) \in store
       /\ outcome = "missing" => Marker(s) \notin store
       /\ inv' = [inv EXCEPT ![s] =
            LET me == [inv[s] EXCEPT
                         !.calls = Append(@, Call("head_object", Marker(s),
                                                  outcome = "found", outcome)),
                         !.puts_seen = {r.id : r \in {x \in recorders :
                                                        x.marker = Marker(s)}}]
            IN IF outcome = "found"
               THEN [me EXCEPT !.pc = "done",
                               !.log = Append(@, "duplicate_ignored"),
                               !.resp = Response(200, "result", "duplicate_ignored")]
               ELSE [me EXCEPT !.pc = "idem_put"]]
  /\ UNCHANGED <<settings, store, passed, recorders, ninv, fn>>

\* put_object that loses the write.
IdemPut_LostWrite(s) ==
  /\ inv[s].pc = "idem_put"
  /\ inv' = [inv EXCEPT ![s] =
       [inv[s] EXCEPT !.pc = "secrets", !.recorded = TRUE,
                      !.calls = Append(@, Call("put_object", Marker(s), TRUE, ""))]]
  /\ recorders' = recorders \cup {Recorder(s)}
  /\ UNCHANGED <<settings, store, passed, ninv, fn>>

\* s3_record_if_new: put_object, outside every try block.
IdemPut(s) ==
  /\ inv[s].pc = "idem_put"
  /\ \E ok \in BOOLEAN :
       /\ inv' = [inv EXCEPT ![s] =
            LET me == [inv[s] EXCEPT
                         !.calls = Append(@, Call("put_object", Marker(s), ok, ""))]
            IN IF ok THEN [me EXCEPT !.pc = "secrets", !.recorded = TRUE]
               ELSE [me EXCEPT !.pc = "crashed"]]
       /\ store' = IF ok THEN store \cup {Marker(s)} ELSE store
       /\ recorders' = IF ok
                       THEN recorders \cup {Recorder(s)}
                       ELSE recorders
  /\ UNCHANGED <<settings, passed, ninv, fn>>

\* The client built without looking at the key.
LoadSecrets_Unchecked(s) ==
  /\ inv[s].pc = "secrets"
  /\ inv' = [inv EXCEPT ![s] = [inv[s] EXCEPT !.pc = "fetch_issue"]]
  /\ UNCHANGED <<settings, store, passed, recorders, ninv, fn>>

\* 5) Backlog API client: the API key of _load_secrets.
LoadSecrets(s) ==
  /\ inv[s].pc = "secrets"
  /\ inv' = [inv EXCEPT ![s] =
       IF settings.api_key = ""
       THEN Return(s, "config_error_missing_api_key",
                   Response(500, "error", "BACKLOG_API_KEY not found"))
       ELSE [inv[s] EXCEPT !.pc = "fetch_issue"]]
  /\ UNCHANGED <<settings, store, passed, recorders, ninv, fn>>

\* get_issue whose failure is not noticed: the pipeline goes on.
FetchIssue_GoesOn(s) ==
  /\ inv[s].pc = "fetch_issue"
  /\ \E ok \in BOOLEAN :
       inv' = [inv EXCEPT ![s] =
         [inv[s] EXCEPT
            !.calls = Append(@, Call("get_issue", inv[s].issue_key, ok, "")),
            !.pc = "fetch_comments"]]
  /\ UNCHANGED <<settings, store, passed, recorders, ninv, fn>>

\* 6) bl.get_issue(issue_key)
FetchIssue(s) ==
  /\ inv[s].pc = "fetch_issue"
  /\ \E ok \in BOOLEAN :
       inv' = [inv EXCEPT ![s] =
         LET me == [inv[s] EXCEPT
                      !.calls = Append(@, Call("get_issue", inv[s].issue_key, ok, ""))]
         IN IF ok THEN [me EXCEPT !.pc = "fetch_comments"]
            ELSE [me EXCEPT !.pc = "done",
                            !.log = Append(@, "backlog_fetch_error"),
                            !.resp = Response(500, "error", "backlog fetch failed: e")]]
  /\ UNCHANGED <<settings, store, passed, recorders, ninv, fn>>

\* list_comments whose failure is not noticed: the pipeline goes on.
FetchComments_GoesOn(s) ==
  /\ inv[s].pc = "fetch_comments"
  /\ \E ok \in BOOLEAN :
       inv' = [inv EXCEPT ![s] =
         [inv[s] EXCEPT
            !.calls = Append(@, Call("list_comments", inv[s].issue_key, ok, "")),
            !.pc = "context", !.log = Append(@, "backlog_fetch_ok"),
            !.urls = extract_context_urls(Get(inv[s].comment, "content"))]]
  /\ UNCHANGED <<settings, store, passed, recorders, ninv, fn>>

\* 6) bl.list_comments(issue_key, count=...)
FetchComments(s) ==
  /\ inv[s].pc = "fetch_comments"
  /\ \E ok \in BOOLEAN :
       inv' = [inv EXCEPT ![s] =
         LET me == [inv[s] EXCEPT
                      !.calls = Append(@, Call("list_comments", inv[s].issue_key, ok, ""))]
         IN IF ok
            THEN [me EXCEPT !.pc = "context", !.log = Append(@, "backlog_fetch_ok"),
                            !.urls = extract_context_urls(Get(inv[s].comment, "content"))]
            ELSE [me EXCEPT !.pc = "done",
                            !.log = Append(@, "backlog_fetch_error"),
                            !.resp = Response(500, "error", "backlog fetch failed: e")]]
  /\ UNCHANGED <<settings, store, passed, recorders, ninv, fn>>

\* Lengths of the flattened text of a fetched issue or wiki page before
\* truncation.
RawLens == {40}

RECURSIVE SumSeq(_)
SumSeq(q) == IF q = <<>> THEN 0 ELSE Head(q) + SumSeq(Tail(q))

\* ContextLoop without the allow-list test.
ContextLoop_NoAllowList(s) ==
  /\ inv[s].pc = "context"
  /\ inv' = [inv EXCEPT ![s] =
       IF inv[s].urls = <<>> THEN [inv[s] EXCEPT !.pc = "llm"]
       ELSE LET url == Head(inv[s].urls)
                k == parse_backlog_issue_url(url, settings.backlog_base_url)
                w == parse_backlog_wiki_url(url, settings.backlog_base_url)
            IN IF SumSeq(inv[s].context_texts) >= settings.context_total_max_bytes
               THEN [inv[s] EXCEPT !.pc = "llm"]
               ELSE IF k.key # <<>>
               THEN [inv[s] EXCEPT !.pc = "ctx_get_issue", !.ctx_issue_key = Join(k.key)]
               ELSE IF w[1] /\ w[2] # 0
               THEN [inv[s] EXCEPT !.pc = "ctx_get_wiki", !.ctx_issue_key = ToString(w[2])]
               ELSE [inv[s] EXCEPT !.urls = Tail(@)]]
  /\ UNCHANGED <<settings, store, passed, recorders, ninv, fn>>

\* 7) Top of the context loop: the checks made before the try block and the
\* classification of the URL.
ContextLoop(s) ==
  /\ inv[s].pc = "context"
  /\ inv' = [inv EXCEPT ![s] =
       IF inv[s].urls = <<>> THEN [inv[s] EXCEPT !.pc = "llm"]
       ELSE LET url == Head(inv[s].urls)
                k == parse_backlog_issue_url(url, settings.backlog_base_url)
                w == parse_backlog_wiki_url(url, settings.backlog_base_url)
            IN IF ~allowlisted(url, settings.context_allowed_hosts)
               THEN [inv[s] EXCEPT !.urls = Tail(@)]
               ELSE IF SumSeq(inv[s].context_texts) >= settings.context_total_max_bytes
               THEN [inv[s] EXCEPT !.pc = "llm"]
               ELSE IF k.key # <<>>
               THEN [inv[s] EXCEPT !.pc = "ctx_get_issue", !.ctx_issue_key = Join(k.key)]
               ELSE IF w[1] /\ w[2] # 0
               THEN [inv[s] EXCEPT !.pc = "ctx_get_wiki", !.ctx_issue_key = ToString(w[2])]
               ELSE [inv[s] EXCEPT !.urls = Tail(@)]]
  /\ UNCHANGED <<settings, store, passed, recorders, ninv, fn>>

\* The except branch leaving the loop instead of going on.
ContextSkip_Breaks(me) ==
  [me EXCEPT !.pc = "llm", !.urls = <<>>,
             !.log = Append(@, "context_fetch_error"),
             !.ctx_errors = Append(@, Head(me.urls))]

\* The except branch of the loop: log, go on with the next URL.
ContextSkip(me) ==
  [me EXCEPT !.pc = "context", !.urls = Tail(@),
             !.log = Append(@, "context_fetch_error"),
             !.ctx_errors = Append(@, Head(me.urls))]

\* The URL gave text txt_len long: "if txt:" appends it.
ContextAdd(me, msg, txt_len) ==
  LET m == [me EXCEPT !.pc = "context", !.urls = Tail(@), !.log = Append(@, msg)] IN
  IF txt_len > 0
  THEN [m EXCEPT !.context_texts = Append(@, txt_len),
                 !.used_context_urls = Append(@, Head(me.urls))]
  ELSE m

\* issue_obj2 = bl.get_issue(ctx_issue_key)
CtxGetIssue(s) ==
  /\ inv[s].pc = "ctx_get_issue"
  /\ \E ok \in BOOLEAN :
       inv' = [inv EXCEPT ![s] =
         LET me == [inv[s] EXCEPT
                      !.calls = Append(@, Call("get_issue", inv[s].ctx_issue_key, ok, ""))]
         IN IF ok THEN [me EXCEPT !.pc = "ctx_list_comments"] ELSE ContextSkip(me)]
  /\ UNCHANGED <<settings, store, passed, recorders, ninv, fn>>

\* comments2 = bl.list_comments(issue_key, ...), then backlog_issue_to_text.
CtxListComments(s) ==
  /\ inv[s].pc = "ctx_list_comments"
  /\ \E ok \in BOOLEAN, len \in RawLens :
       inv' = [inv EXCEPT ![s] =
         LET me == [inv[s] EXCEPT
                      !.calls = Append(@, Call("list_comments", inv[s].issue_key, ok, ""))]
         IN IF ok
            THEN ContextAdd(me, "context_added_issue",
                            TruncatedLen(len, settings.context_url_max_bytes))
            ELSE ContextSkip(me)]
  /\ UNCHANGED <<settings, store, passed, recorders, ninv, fn>>

\* wiki = bl.get_wiki(int(wiki_id))
CtxGetWiki(s) ==
  /\ inv[s].pc = "ctx_get_wiki"
  /\ \E ok \in BOOLEAN :
       inv' = [inv EXCEPT ![s] =
         LET me == [inv[s] EXCEPT
                      !.calls = Append(@, Call("get_wiki", inv[s].ctx_issue_key, ok, ""))]
         IN IF ok THEN [me EXCEPT !.pc = "ctx_list_attachments"] ELSE ContextSkip(me)]
  /\ UNCHANGED <<settings, store, passed, recorders, ninv, fn>>

\* w_attachments = bl.list_wiki_attachments(int(wiki_id)), then
\* backlog_wiki_to_text.
CtxListAttachments(s) ==
  /\ inv[s].pc = "ctx_list_attachments"
  /\ \E ok \in BOOLEAN, len \in RawLens :
       inv' = [inv EXCEPT ![s] =
         LET me == [inv[s] EXCEPT
                      !.calls = Append(@, Call("list_wiki_attachments",
                                               inv[s].ctx_issue_key, ok, ""))]
         IN IF ok
            THEN ContextAdd(me, "context_added_wiki",
                            TruncatedLen(len, settings.context_url_max_bytes))
            ELSE ContextSkip(me)]
  /\ UNCHANGED <<settings, store, passed, recorders, ninv, fn>>

\* The header of the footer of a summary.
FooterHeader == "\n\n**context**\n"

\* "\n".join(f"- {u}" for u in used_context_urls)
RECURSIVE CtxLines(_)
CtxLines(us) ==
  IF us = <<>> THEN ""
  ELSE "- " \o Join(Head(us)) \o (IF Len(us) > 1 THEN "\n" ELSE "") \o CtxLines(Tail(us))

\* The footer appended whatever the command.
ReplyText_AnyCommand(out, cmd, used_context_urls) ==
  IF used_context_urls # <<>>
  THEN out \o FooterHeader \o CtxLines(used_context_urls)
  ELSE out

\* An empty answer replaced by a fixed text.
ReplyText_FillsEmpty(out, cmd, used_context_urls) ==
  IF cmd.cmd = "summary" /\ used_context_urls # <<>>
  THEN out \o FooterHeader \o CtxLines(used_context_urls)
  ELSE IF out = "" THEN "(no answer)" ELSE out

\* reply_text after the generation returned out.
ReplyText(out, cmd, used_context_urls) ==
  IF cmd.cmd = "summary" /\ used_context_urls # <<>>
  THEN out \o FooterHeader \o CtxLines(used_context_urls)
  ELSE out

\* 8) One iteration of the loop of _call_with_retry: the generation call
\* returns (the loop returns its text) or raises (the loop goes on, and
\* after the last iteration raises last_err, which lambda_handler catches).
CallLLM(s) ==
  /\ inv[s].pc = "llm"
  /\ inv[s].attempts < MaxAttempts
  /\ \E ok \in BOOLEAN, out \in ModelOutputs :
       /\ ~ok => out = ""
       /\ inv' = [inv EXCEPT ![s] =
         LET me == [inv[s] EXCEPT
                      !.attempts = @ + 1,
                      !.calls = Append(@, Call("invoke_model", inv[s].cmd.cmd, ok, out))]
         IN IF ok
            THEN [me EXCEPT !.pc = "post", !.log = Append(@, "llm_ok"),
                            !.reply_text = ReplyText(out, inv[s].cmd,
                                                    inv[s].used_context_urls)]
            ELSE IF me.attempts < MaxAttempts
            THEN [me EXCEPT !.log = Append(@, "llm_retry")]
            ELSE [me EXCEPT !.pc = "apology",
                            !.log = Append(Append(@, "llm_retry"), "llm_failed")]]
  /\ UNCHANGED <<settings, store, passed, recorders, ninv, fn>>

\* The apology posted a second time when its first post fails.
PostApology_Retries(s) ==
  /\ inv[s].pc = "apology"
  /\ \E ok \in BOOLEAN :
       inv' = [inv EXCEPT ![s] =
         LET me == [inv[s] EXCEPT
                      !.calls = Append(@, Call("post_comment", inv[s].issue_key, ok,
                                               ErrorText))]
         IN IF ok \/ inv[s].calls[Len(inv[s].calls)].op = "post_comment"
            THEN [me EXCEPT !.pc = "done", !.resp = Response(500, "error", "llm_failed")]
            ELSE me]
  /\ UNCHANGED <<settings, store, passed, recorders, ninv, fn>>

\* The except branch letting the failure of the apology post escape.
PostApology_Raises(s) ==
  /\ inv[s].pc = "apology"
  /\ \E ok \in BOOLEAN :
       inv' = [inv EXCEPT ![s] =
         LET me == [inv[s] EXCEPT
                      !.calls = Append(@, Call("post_comment", inv[s].issue_key, ok,
                                               ErrorText))]
         IN IF ok
            THEN [me EXCEPT !.pc = "done", !.resp = Response(500, "error", "llm_failed")]
            ELSE [me EXCEPT !.pc = "crashed"]]
  /\ UNCHANGED <<settings, store, passed, recorders, ninv, fn>>

\* The except branch: post the apology, swallow its failure, return 500.
PostApology(s) ==
  /\ inv[s].pc = "apology"
  /\ \E ok \in BOOLEAN :
       inv' = [inv EXCEPT ![s] =
         [inv[s] EXCEPT
            !.pc = "done",
            !.calls = Append(@, Call("post_comment", inv[s].issue_key, ok, ErrorText)),
            !.resp = Response(500, "error", "llm_failed")]]
  /\ UNCHANGED <<settings, store, passed, recorders, ninv, fn>>

\* Post reply falling back to the apology when the post fails.
PostReply_Apologises(s) ==
  /\ inv[s].pc = "post"
  /\ \E ok \in BOOLEAN :
       inv' = [inv EXCEPT ![s] =
         LET me == [inv[s] EXCEPT
                      !.calls = Append(@, Call("post_comment", inv[s].issue_key, ok,
                                               inv[s].reply_text))]
         IN IF ok
            THEN [me EXCEPT !.pc = "done", !.log = Append(@, "ok"),
                            !.resp = Response(200, "result", "ok")]
            ELSE [me EXCEPT !.pc = "apology", !.log = Append(@, "backlog_post_error")]]
  /\ UNCHANGED <<settings, store, passed, recorders, ninv, fn>>

\* Post reply without looking at the outcome of the post.
PostReply_IgnoresFailure(s) ==
  /\ inv[s].pc = "post"
  /\ \E ok \in BOOLEAN :
       inv' = [inv EXCEPT ![s] =
         [inv[s] EXCEPT
            !.pc = "done", !.log = Append(@, "ok"),
            !.calls = Append(@, Call("post_comment", inv[s].issue_key, ok,
                                     inv[s].reply_text)),
            !.resp = Response(200, "result", "ok")]]
  /\ UNCHANGED <<settings, store, passed, recorders, ninv, fn>>

\* 9) Post reply.
PostReply(s) ==
  /\ inv[s].pc = "post"
  /\ \E ok \in BOOLEAN :
       inv' = [inv EXCEPT ![s] =
         LET me == [inv[s] EXCEPT
                      !.calls = Append(@, Call("post_comment", inv[s].issue_key, ok,
                                               inv[s].reply_text))]
         IN IF ok
            THEN [me EXCEPT !.pc = "done", !.log = Append(@, "ok"),
                            !.resp = Response(200, "result", "ok")]
            ELSE [me EXCEPT !.pc = "done", !.log = Append(@, "backlog_post_error"),
                            !.resp = Response(500, "error", "backlog post failed: e")]]
  /\ UNCHANGED <<settings, store, passed, recorders, ninv, fn>>

\* The hosting environment takes the response (or the exception); the slot
\* is free for the next invocation.
Finish(s) ==
  /\ inv[s].pc \in {"done", "crashed"}
  /\ passed' = IF inv[s].recorded THEN passed \cup {Marker(s)} ELSE passed
  /\ inv' = [inv EXCEPT ![s] = IdleInv]
  /\ UNCHANGED <<settings, store, recorders, ninv, fn>>

Step(s) ==
  \/ VerifySecret(s)
  \/ ParseBody(s)
  \/ Gate(s)
  \/ ParseCommand(s)
  \/ IdemHead(s)
  \/ IdemPut(s)
  \/ LoadSecrets(s)
  \/ FetchIssue(s)
  \/ FetchComments(s)
  \/ ContextLoop(s)
  \/ CtxGetIssue(s)
  \/ CtxListComments(s)
  \/ CtxGetWiki(s)
  \/ CtxListAttachments(s)
  \/ CallLLM(s)
  \/ PostApology(s)
  \/ PostReply(s)
  \/ Finish(s)

\* No invocation is running.
Quiescent == \A s \in Slots : inv[s].pc = "idle"

\* Invocations one after the other.
InvokeSeq(s) == \E e \in EventSet : Quiescent /\ Invoke(s, e)

Next == \E s \in Slots : InvokeSeq(s) \/ Step(s)

Spec == Init /\ [][Next]_vars

\* Redeliveries of comments, run at the same time: the default
\* configuration and events that reach the idempotency gate.
ConcEvents ==
  {MkEvent(GoodAuth, FALSE, JsonBody(p)) : p \in {PayloadSummary, PayloadSummaryCtx}}

InitConc ==
  /\ settings = DefaultSettings
  /\ store = {}
  /\ passed = {}
  /\ recorders = {}
  /\ ninv = 0
  /\ inv = [s \in Slots |-> IdleInv]
  /\ fn = NoEval

InvokeConc(s) == \E e \in ConcEvents : Invoke(s, e)

NextConc == \E s \in Slots : InvokeConc(s) \/ Step(s)

SpecConc == InitConc /\ [][NextConc]_vars

\* Invocations one after the other under every combination of the
\* settings of the context loop: the allow-list, the length limit of one
\* context text and the budget of all context texts.
InitCtx ==
  /\ settings \in {[DefaultSettings EXCEPT !.context_allowed_hosts = h,
                                           !.context_url_max_bytes = u,
                                           !.context_total_max_bytes = t] :
                     h \in {<<>>, <<HostB>>, <<HostX>>}, u \in {20, 100},
                     t \in {0, 50, 200}}
  /\ store = {}
  /\ passed = {}
  /\ recorders = {}
  /\ ninv = 0
  /\ inv = [s \in Slots |-> IdleInv]
  /\ fn = NoEval

SpecCtx == InitCtx /\ [][Next]_vars

\* The part of a prompt after its instruction: title, description[:1500],
\* the field lines and the first 50 comment lines, each list under a label
\* when it is not empty.
PromptBody(title, description, fields_lines, latest_lines) ==
  <<"T", ":", " ">> \o title \o <<"\n", "D", ":", " ">> \o SlicePrefix(description, 1500)
  \o (IF fields_lines # <<>>
      THEN <<"\n", "F", ":", "\n", "-", " ">> \o JoinWith(fields_lines, <<"\n", "-", " ">>)
      ELSE <<>>)
  \o (IF latest_lines # <<>>
      THEN <<"\n", "L", ":", "\n", "-", " ">>
             \o JoinWith(SlicePrefix(latest_lines, 50), <<"\n", "-", " ">>)
      ELSE <<>>)

\* p += label + "\n".join(context_texts[:2]) when context_texts is not empty;
\* the label is a Japanese word between two newlines and ":\n" in the source.
ContextSection(context_texts) ==
  IF context_texts # <<>>
  THEN <<"\n", "\n", "X", ":", "\n">> \o JoinWith(SlicePrefix(context_texts, 2), <<"\n">>)
  ELSE <<>>

_build_summary_prompt(title, description, fields_lines, latest_lines, context_texts) ==
  <<"S", "\n">> \o PromptBody(title, description, fields_lines, latest_lines)
  \o ContextSection(context_texts)

_build_ask_prompt(q, title, description, fields_lines, latest_lines, context_texts) ==
  <<"A", "\n", "Q", ":", " ">> \o q \o <<"\n", "\n">>
  \o PromptBody(title, description, fields_lines, latest_lines)
  \o ContextSection(context_texts)

_build_update_prompt(title, description, fields_lines, latest_lines) ==
  <<"U", "\n", "\n">> \o PromptBody(title, description, fields_lines, latest_lines)

(***************************************************************************)
(* The helper functions on their own: each is called once on arguments     *)
(* drawn from the sets below.                                              *)
(***************************************************************************)
\* The largest max_chars a flattening is called with.
MaxChars == 24

\* Comment texts: a prefix, a keyword or something close to one, a rest.
CmdPrefixes ==
  {<<>>,
   <<"x">>,
   <<" ">>,
   <<"@", "b", " ">>,
   <<"_">>,
   <<"\n">>}

CmdCores ==
  {<<"/", "s", "u", "m", "m", "a", "r", "y">>,
   <<"/", "A", "s", "k">>,
   <<"/", "u", "p", "d", "a", "t", "e">>,
   <<"/", "a", "s">>,
   <<"a", "s", "k">>,
   <<"/", "a", "s", "k", "/", "u", "p", "d", "a", "t", "e">>}

CmdRests ==
  {<<>>,
   <<"s">>,
   <<" ", "q", " ">>,
   <<" ", "\n", "q", "\n", "r", "\n">>,
   <<" ", "/", "a", "s", "k", " ", "z">>,
   <<"-", "f">>,
   <<"_">>}

CommandTexts ==
  {Null, Text(<<>>)}
  \cup {Text(a \o b \o c) : a \in CmdPrefixes, b \in CmdCores, c \in CmdRests}

\* Tokens of a "context:" line.
UrlTokens ==
  {<<"h", "t", "t", "p", "s", ":", "/", "/", "b", ".", "i", "o", "/", "x">>,
   <<"H", "T", "T", "P", ":", "/", "/", "c", ".", "i", "o">>,
   <<"f", "t", "p", ":", "/", "/", "b", ".", "i", "o", "/", "x">>,
   <<"h", "t", "t", "p", ":", "/", "/">>,
   <<"b", ".", "i", "o", "/", "y">>,
   <<"h", "t", "t", "p", "s", ":", "/", "/", "/", "p">>}

TokenLists ==
  {<<>>} \cup {<<a>> : a \in UrlTokens} \cup {<<a, b>> : a \in UrlTokens, b \in UrlTokens}

\* The start of the line holding the tokens.
LineHeads ==
  {<<" ", "C", "o", "n", "t", "e", "x", "t", ":", " ">>,
   <<"c", "o", "n", "t", "e", "x", "t", ":">>,
   <<"C", "O", "N", "T", "E", "X", "T", ":", "\t">>,
   <<"c", "o", "n", "t", "e", "x", "t", "s", ":", " ">>,
   <<"u", "r", "l", "s", ":", " ">>}

\* The lines before the line holding the tokens.
LinesBefore ==
  {<<>>,
   <<"/", "a", "s", "k", " ", "q", "\n">>,
   <<"c", "o", "n", "t", "e", "x", "t", ":", " ", "h", "t", "t", "p", ":", "/", "/", "a", ".", "i", "o", "/", "1", "\n">>}

\* The lines after the line holding the tokens.
LinesAfter ==
  {<<>>,
   <<"\n", "b", "y", "e">>,
   <<" ", "\n">>}

ContextTexts ==
  {Null, Text(<<>>)}
  \cup {Text(b \o h \o JoinWith(ts, <<" ">>) \o a) :
          b \in LinesBefore, h \in LineHeads, ts \in TokenLists, a \in LinesAfter}

\* URLs and allow-lists of allowlisted.
AllowUrls ==
  {<<"h", "t", "t", "p", "s", ":", "/", "/", "e", "x", "a", "m", "p", "l", "e", ".", "c", "o", "m", "/", "x">>,
   <<"h", "t", "t", "p", "s", ":", "/", "/", "d", "o", "c", "s", ".", "e", "x", "a", "m", "p", "l", "e", ".", "c", "o", "m", "/", "x">>,
   <<"h", "t", "t", "p", "s", ":", "/", "/", "e", "v", "i", "l", "e", "x", "a", "m", "p", "l", "e", ".", "c", "o", "m", "/", "x">>,
   <<"h", "t", "t", "p", "s", ":", "/", "/", "e", "x", "a", "m", "p", "l", "e", ".", "c", "o", "m", ":", "8", "0", "8", "0", "/", "x">>,
   <<"h", "t", "t", "p", "s", ":", "/", "/", "b", ".", "i", "o">>,
   <<"h", "t", "t", "p", "s", ":", "/", "/", "a", ".", "b", ".", "i", "o", "?", "q">>,
   <<"e", "x", "a", "m", "p", "l", "e", ".", "c", "o", "m">>,
   <<"h", "t", "t", "p", "s", ":", "/", "/", "c", "o", "m", "/">>}

AllowLists ==
  {<<>>, <<<<"e", "x", "a", "m", "p", "l", "e", ".", "c", "o", "m">>>>, <<<<"b", ".", "i", "o">>, <<"e", "x", "a", "m", "p", "l", "e", ".", "c", "o", "m">>>>, <<<<"c", "o", "m">>>>}

\* Issues, comments and wiki pages as the tracker returns them, the absent
\* fields empty.
FlatIssues ==
  {[issueKey |-> <<"P", "-", "3">>, summary |-> t, description |-> d, status |-> st] :
     t \in {<<>>, <<"F", "i", "x">>}, d \in {<<>>, <<"L", "o", "n", "g", " ", "t", "e", "x", "t">>}, st \in {<<>>, <<"O", "p", "e", "n">>}}

FlatComments ==
  {<<>>,
   <<[id |-> 5, created |-> <<"t", "1">>, author |-> <<"a", "n", "n">>, content |-> <<" ", "h", "i", " ", "t", "h", "e", "r", "e", " ">>]>>,
   <<[id |-> 4, created |-> <<>>, author |-> <<>>, content |-> <<"x">>],
     [id |-> 5, created |-> <<"t", "1">>, author |-> <<"a", "n", "n">>, content |-> <<"o", "k">>]>>}

FlatWikis ==
  {[project |-> pr, name |-> n, content |-> c] :
     pr \in {<<>>, <<"P">>}, n \in {<<>>, <<"H", "o", "m", "e">>}, c \in {<<>>, <<"S", "o", "m", "e", "\n", "b", "o", "d", "y">>}}

FlatAttachments ==
  {<<>>, <<[name |-> <<"a", ".", "p", "n", "g">>, size |-> <<"1", "2">>]>>}

InitFn ==
  /\ settings = DefaultSettings
  /\ store = {}
  /\ passed = {}
  /\ recorders = {}
  /\ ninv = 0
  /\ inv = [s \in Slots |-> IdleInv]
  /\ fn \in {[op |-> "parse_command", done |-> FALSE, text |-> t] : t \in CommandTexts}
       \cup {[op |-> "extract_context_urls", done |-> FALSE, text |-> t] :
               t \in ContextTexts}
       \cup {[op |-> "allowlisted", done |-> FALSE, url |-> u, allowed_hosts |-> h] :
               u \in AllowUrls, h \in AllowLists}
       \cup {[op |-> "backlog_issue_to_text", done |-> FALSE, issue |-> i,
              comments |-> c, max_chars |-> n, only_comment_id |-> o] :
               i \in FlatIssues, c \in FlatComments, n \in 0..MaxChars, o \in {0, 5}}
       \cup {[op |-> "backlog_wiki_to_text", done |-> FALSE, wiki |-> w,
              attachments |-> a, max_chars |-> n] :
               w \in FlatWikis, a \in FlatAttachments, n \in 0..MaxChars}
       \cup {[op |-> "context_issue_text", done |-> FALSE, url |-> u, issue |-> i,
              comments |-> c] :
               u \in {BaseUrl \o ViewPrefix \o <<"P", "-", "3">> \o f :
                        f \in {<<>>, <<"#">> \o CommentPrefix \o <<"5">>,
                               <<"#">> \o CommentPrefix \o <<"4">>,
                               <<"#">> \o CommentPrefix \o <<"0">>,
                               <<"#">> \o CommentPrefix \o <<"x">>,
                               <<"#", "n", "o", "t", "e", "-", "5">>}},
               i \in FlatIssues, c \in FlatComments}
       \cup {[op |-> "generate_summary", done |-> FALSE,
              used_context_urls |->
                [i \in 1..n |-> BaseUrl \o ViewPrefix \o <<"P", "-">> \o <<ToString(i)>>],
              context_texts |-> [i \in 1..n |-> <<"b", ToString(i)>>]] :
               n \in 0..3}
       \cup {[op |-> "build_prompt", done |-> FALSE, kind |-> k, q |-> <<"w">>,
              title |-> <<"t">>, description |-> d, fields_lines |-> f,
              latest_lines |-> l, context_texts |-> c] :
               k \in {"summary", "ask", "update"}, d \in {<<>>, <<"d">>},
               f \in {<<>>, <<<<"f">>>>}, l \in {<<>>, <<<<"a">>, <<"b">>>>},
               c \in {<<>>, <<<<"1">>>>, <<<<"1">>, <<"2">>>>, <<<<"2">>, <<"1">>>>,
                      <<<<"1">>, <<"2">>, <<"3">>>>}}

\* The call returns res.
Returned(res) ==
  /\ ~fn.done
  /\ fn' = [op |-> fn.op, done |-> TRUE, args |-> fn, res |-> res]
  /\ UNCHANGED <<settings, store, passed, recorders, ninv, inv>>

CallParseCommand ==
  fn.op = "parse_command" /\ Returned(parse_command(fn.text))

CallExtractContextUrls ==
  fn.op = "extract_context_urls" /\ Returned(extract_context_urls(fn.text))

CallAllowlisted ==
  fn.op = "allowlisted" /\ Returned(allowlisted(fn.url, fn.allowed_hosts))

CallIssueToText ==
  /\ fn.op = "backlog_issue_to_text"
  /\ Returned(backlog_issue_to_text(fn.issue, fn.comments, fn.max_chars,
                                    fn.only_comment_id))

CallWikiToText ==
  /\ fn.op = "backlog_wiki_to_text"
  /\ Returned(backlog_wiki_to_text(fn.wiki, fn.attachments, fn.max_chars))

\* The text of a context URL that refers to an issue, given the issue and
\* the comments fetched: lambda_handler passes the comment id parsed from the
\* URL on as only_comment_id (the parsed comment is 0 where the source has
\* None; the test of only_comment_id takes None and 0 alike).
CallContextIssueText ==
  /\ fn.op = "context_issue_text"
  /\ Returned(backlog_issue_to_text(
                fn.issue, fn.comments, settings.context_url_max_bytes,
                parse_backlog_issue_url(fn.url, settings.backlog_base_url).comment))

\* A summary is generated from the context collected by the context loop:
\* the prompt handed to the generation service and, the service having
\* answered "out", the reply text.
CallGenerateSummary ==
  /\ fn.op = "generate_summary"
  /\ Returned([prompt |-> _build_summary_prompt(<<"t">>, <<"d">>, <<>>, <<>>,
                                                 fn.context_texts),
               reply_text |-> ReplyText("out", [cmd |-> "summary"],
                                        fn.used_context_urls)])

\* _call_with_retry builds the prompt of the command kind.
CallBuildPrompt ==
  /\ fn.op = "build_prompt"
  /\ Returned(CASE fn.kind = "summary" ->
                    _build_summary_prompt(fn.title, fn.description, fn.fields_lines,
                                          fn.latest_lines, fn.context_texts)
                 [] fn.kind = "ask" ->
                    _build_ask_prompt(fn.q, fn.title, fn.description, fn.fields_lines,
                                      fn.latest_lines, fn.context_texts)
                 [] fn.kind = "update" ->
                    _build_update_prompt(fn.title, fn.description, fn.fields_lines,
                                         fn.latest_lines))

NextFn ==
  \/ CallParseCommand
  \/ CallExtractContextUrls
  \/ CallAllowlisted
  \/ CallIssueToText
  \/ CallWikiToText
  \/ CallBuildPrompt
  \/ CallContextIssueText
  \/ CallGenerateSummary

SpecFn == InitFn /\ [][NextFn]_vars

(***************************************************************************)
(* Properties.                                                             *)
(***************************************************************************)
\* The positions of the calls of invocation s to one of the operations ops.
CallsOf(s, ops) == {i \in 1..Len(inv[s].calls) : inv[s].calls[i].op \in ops}

\* The JSON payload of an event, when its body is a JSON object.
HasPayload(e) == e.body.kind = "json" /\ e.body.v.t = "dict"

\* The event has the flat shape: top-level comment and issue, no content.
IsFlat(e) ==
  /\ HasPayload(e)
  /\ {"comment", "issue"} \subseteq DOMAIN e.body.v.d
  /\ "content" \notin DOMAIN e.body.v.d
  /\ e.body.v.d.comment.t = "dict"
  /\ e.body.v.d.issue.t = "dict"

\* The event has the nested shape: a content object.
IsNested(e) ==
  /\ HasPayload(e)
  /\ "content" \in DOMAIN e.body.v.d
  /\ e.body.v.d.content.t = "dict"

\* The text of a numeric value, "" when the value is not numeric.
NumericText(j) ==
  IF j.t = "int" /\ j.n >= 0 THEN ToString(j.n)
  ELSE IF j.t = "str" /\ j.s \in {ToString(n) : n \in 0..MaxNum} THEN j.s
  ELSE ""

\* The issue key the specification derives from a nested payload, "" when
\* it derives none.
ExpectedKey(p) ==
  LET c == p.d.content.d
      pk == IF "project" \in DOMAIN p.d /\ p.d.project.t = "dict"
               /\ "projectKey" \in DOMAIN p.d.project.d
               /\ p.d.project.d.projectKey.t = "str"
            THEN p.d.project.d.projectKey.s ELSE ""
      kid == IF "key_id" \in DOMAIN c THEN NumericText(c.key_id) ELSE ""
      cid == IF "id" \in DOMAIN c THEN NumericText(c.id) ELSE ""
  IN IF "issue" \in DOMAIN c /\ c.issue.t = "dict" /\ "issueKey" \in DOMAIN c.issue.d
        /\ c.issue.d.issueKey.t = "str"
     THEN c.issue.d.issueKey.s
     ELSE IF pk # "" /\ kid # "" THEN pk \o "-" \o kid
     ELSE IF pk # "" /\ cid # "" THEN pk \o "-" \o cid
     ELSE ""

\* The comment of a flat payload carries a command and, when a bot id is
\* configured, mentions it.
FlatQualifies(e) ==
  /\ IsFlat(e)
  /\ parse_command(Get(e.body.v.d.comment, "content")).cmd # "none"
  /\ settings.require_mention
  /\ settings.bot_user_id = 0
     \/ is_bot_mentioned(e.body.v.d.comment, settings.bot_user_id)

\* C1: a flat-shape event (top-level comment and issue) that carries a
\* command, mentions the bot and has a valid secret is normalized to a
\* non-empty pair and is never answered "ignored".
C1_FlatShapeSupported ==
  \A s \in Slots :
     (inv[s].pc = "done" /\ FlatQualifies(inv[s].event))
        => inv[s].resp.val # "ignored"

\* The secret an event presents: the X-Webhook-Secret header (in any case)
\* when it has a non-empty one, else the token of the query parameters, else
\* the token of the raw query string.
PresentedSecrets(e) ==
  LET hv == {e.headers[i][2].s :
               i \in {j \in 1..Len(e.headers) :
                        e.headers[j][1] \in {"X-Webhook-Secret", "x-webhook-secret",
                                             "X-WEBHOOK-SECRET"}}} \ {""}
      qv == IF e.qs.t = "dict" /\ "token" \in DOMAIN e.qs.d
            THEN {e.qs.d.token.s} ELSE {}
      rv == {e.raw[i].v : i \in {j \in 1..Len(e.raw) : e.raw[j].k = "token"}}
  IN IF hv # {} THEN hv ELSE IF qv # {} THEN qv ELSE rv

\* C2: with a shared secret configured, an event whose presented secret is
\* missing or differs from it is answered 401 {"error":"unauthorized"}
\* without body parsing and without any store, tracker or model call; an
\* event presenting the exact secret is never answered 401.
C2_Unauthorized ==
  settings.webhook_shared_secret # "" =>
    \A s \in Slots :
       inv[s].pc \notin {"idle", "auth"} =>
          IF PresentedSecrets(inv[s].event) = {settings.webhook_shared_secret}
          THEN inv[s].resp.status # 401
          ELSE /\ inv[s].pc = "done"
               /\ inv[s].resp = Response(401, "error", "unauthorized")
               /\ ~inv[s].parsed
               /\ inv[s].calls = <<>>

\* C2 witness: an event with a wrong secret and an undecodable body has been
\* answered 401.
C2_Witness ==
  \E s \in Slots :
     /\ inv[s].resp.status = 401
     /\ inv[s].event.body.kind = "badb64"
     /\ PresentedSecrets(inv[s].event) = {"wrong"}

\* C3: with a bucket configured, an invocation that reaches the idempotency
\* gate for a marker recorded by an invocation that returned before it
\* began returns 200 {"result":"duplicate_ignored"}, posts no comment and
\* calls no model.
C3_SequentialDedup ==
  settings.idempotency_bucket # "" =>
    \A s \in Slots :
       (CallsOf(s, {"head_object"}) # {} /\ Marker(s) \in inv[s].prior) =>
          /\ inv[s].pc = "done"
          /\ inv[s].resp = Response(200, "result", "duplicate_ignored")
          /\ CallsOf(s, {"post_comment", "invoke_model"}) = {}

\* What head_object answered to invocation s.
HeadOutcome(s) ==
  IF CallsOf(s, {"head_object"}) = {} THEN "none"
  ELSE inv[s].calls[CHOOSE i \in CallsOf(s, {"head_object"}) : TRUE].text

\* Invocations s and t both recorded the same marker and the store
\* answered both existence checks truthfully.
BothProceeded(s, t) ==
  /\ s # t
  /\ inv[s].recorded /\ inv[t].recorded
  /\ Marker(s) = Marker(t)
  /\ HeadOutcome(s) = "missing" /\ HeadOutcome(t) = "missing"

\* C4: the check-then-record of s3_record_if_new is not atomic: two
\* invocations for one marker both get "first time" exactly when both
\* existence checks ran before either record, and then both post a reply.
C4_BothProceedOnlyByRace ==
  \A s, t \in Slots :
     BothProceeded(s, t) => inv[s].puts_seen = {} /\ inv[t].puts_seen = {}

\* C4 witness: two replies have been posted for one marker.
C4_TwoReplies ==
  \E s, t \in Slots :
     /\ BothProceeded(s, t)
     /\ inv[s].resp = Response(200, "result", "ok")
     /\ inv[t].resp = Response(200, "result", "ok")
     /\ \E i \in CallsOf(s, {"post_comment"}), j \in CallsOf(t, {"post_comment"}) :
           /\ inv[s].calls[i].ok /\ inv[t].calls[j].ok
           /\ inv[s].calls[i].target = inv[t].calls[j].target

\* max(1, llm_max_retries), the attempts the specification allows.
RetryBound == IF settings.llm_max_retries >= 1 THEN settings.llm_max_retries ELSE 1

\* Every attempt the retry loop may make has been made and has failed.
AllAttemptsFailed(s) ==
  /\ Cardinality(CallsOf(s, {"invoke_model"})) = RetryBound
  /\ \A i \in CallsOf(s, {"invoke_model"}) : ~inv[s].calls[i].ok

\* C5: when the generation fails on every attempt the invocation returns
\* 500 {"error":"llm_failed"} after attempting exactly one post, of the
\* fixed apology on the event's issue, whether that post succeeds or not.
C5_LlmExhaustion ==
  \A s \in Slots :
     (AllAttemptsFailed(s) /\ inv[s].pc # "apology") =>
        /\ inv[s].pc = "done"
        /\ inv[s].resp = Response(500, "error", "llm_failed")
        /\ Cardinality(CallsOf(s, {"post_comment"})) = 1
        /\ \A i \in CallsOf(s, {"post_comment"}) :
              /\ inv[s].calls[i].text = ErrorText
              /\ inv[s].calls[i].target = ExpectedKey(inv[s].event.body.v)
              /\ i = Len(inv[s].calls)

\* C5 witness: the apology post failed and the answer is 500 llm_failed.
C5_Witness ==
  \E s \in Slots :
     /\ AllAttemptsFailed(s)
     /\ inv[s].pc = "done"
     /\ \E i \in CallsOf(s, {"post_comment"}) : ~inv[s].calls[i].ok

\* C6: an invocation calls the generation service at most
\* max(1, llm_max_retries) times, exactly that often when every attempt
\* fails, and never again after a call that succeeded.
C6_BoundedRetry ==
  \A s \in Slots :
     LET m == CallsOf(s, {"invoke_model"}) IN
     /\ Cardinality(m) <= RetryBound
     /\ (inv[s].pc = "apology" \/ inv[s].resp.val = "llm_failed")
           => AllAttemptsFailed(s)
     /\ ((\A i \in m : ~inv[s].calls[i].ok) /\ Cardinality(m) < RetryBound)
           => inv[s].pc \in {"llm", "crashed"} \/ m = {} 
     /\ \A i \in m : inv[s].calls[i].ok => \A j \in m : j <= i

\* C6 witness: with LLM_MAX_RETRIES below 1 one attempt was made, it
\* failed, and the failure was propagated.
C6_Witness ==
  \E s \in Slots :
     /\ settings.llm_max_retries < 1
     /\ inv[s].resp.val = "llm_failed"
     /\ Cardinality(CallsOf(s, {"invoke_model"})) = 1

\* A well-formed response: 200 with a result tag, 401 or 500 with an error.
WellFormed(r) ==
  \/ r.status = 200 /\ r.kind = "result" /\ r.val \in {"ok", "ignored", "duplicate_ignored"}
  \/ r.status \in {401, 500} /\ r.kind = "error"

\* C7: whatever the event and whatever the collaborators do, lambda_handler
\* returns a response with status 200, 401 or 500 and a {"result": tag} or
\* {"error": message} body.
C7_AlwaysResponds ==
  \A s \in Slots :
     /\ inv[s].pc # "crashed"
     /\ inv[s].pc = "done" => WellFormed(inv[s].resp)

\* The user ids of the notifications of a comment.
NotifiedIds(comment) ==
  LET ns == IF "notifications" \in DOMAIN comment.d /\ comment.d.notifications.t = "list"
            THEN comment.d.notifications.l ELSE <<>>
      UserId(n) ==
        IF n.t = "dict" /\ "user" \in DOMAIN n.d /\ n.d.user.t = "dict"
           /\ "id" \in DOMAIN n.d.user.d
        THEN NumericText(n.d.user.d.id) ELSE ""
  IN {UserId(ns[i]) : i \in 1..Len(ns)} \ {""}

\* C8: in mention-required mode a normalized event passes the gate exactly
\* when the bot id is zero or is among the notified user ids; otherwise
\* the invocation returns 200 {"result":"ignored"} without any call.
C8_MentionGate ==
  settings.require_mention =>
    \A s \in Slots :
       (Truthy(inv[s].comment) /\ inv[s].pc # "gate") =>
          IF settings.bot_user_id = 0
             \/ ToString(settings.bot_user_id) \in NotifiedIds(inv[s].comment)
          THEN "ignored_no_mention" \notin {inv[s].log[i] : i \in 1..Len(inv[s].log)}
          ELSE /\ inv[s].pc = "done"
               /\ inv[s].resp = Response(200, "result", "ignored")
               /\ inv[s].log = <<"ignored_no_mention">>
               /\ inv[s].calls = <<>>

\* C8 witness: an event whose second notification names the bot has passed
\* the gate.
C8_Witness ==
  \E s \in Slots :
     /\ settings.require_mention /\ settings.bot_user_id # 0
     /\ inv[s].pc = "command"
     /\ Cardinality(NotifiedIds(inv[s].comment)) = 2

\* C9: a 200 {"result":"ok"} response means exactly one comment was posted,
\* to the issue key of the event, after a generation call that succeeded,
\* and the post succeeded.
C9_OkMeansOneReply ==
  \A s \in Slots :
     inv[s].resp = Response(200, "result", "ok") =>
        /\ Cardinality(CallsOf(s, {"post_comment"})) = 1
        /\ \A i \in CallsOf(s, {"post_comment"}) :
              /\ inv[s].calls[i].ok
              /\ inv[s].calls[i].text # ErrorText
              /\ inv[s].calls[i].target = ExpectedKey(inv[s].event.body.v)
              /\ \E j \in CallsOf(s, {"invoke_model"}) : j < i /\ inv[s].calls[j].ok

\* C9 witness: an invocation answered ok after a failed generation attempt
\* and a failed context fetch.
C9_Witness ==
  \E s \in Slots :
     /\ inv[s].resp = Response(200, "result", "ok")
     /\ \E i \in CallsOf(s, {"invoke_model"}) : ~inv[s].calls[i].ok
     /\ \E i \in CallsOf(s, {"get_wiki", "list_wiki_attachments"}) : ~inv[s].calls[i].ok

\* The comment of a nested payload is absent or an empty object.
EmptyComment(p) ==
  \/ "comment" \notin DOMAIN p.d.content.d
  \/ p.d.content.d.comment.t = "null"
  \/ p.d.content.d.comment.t = "dict" /\ DOMAIN p.d.content.d.comment.d = {}

StringComment(e) ==
  /\ IsNested(e)
  /\ "comment" \in DOMAIN e.body.v.d.content.d
  /\ e.body.v.d.content.d.comment.t = "text"

\* No gate can hold the event back: no bot id to be mentioned in
\* mention-required mode, no allow-list in open mode.
GateOpen ==
  IF settings.require_mention THEN settings.bot_user_id = 0
  ELSE settings.allowed_trigger_user_ids = {}

\* C11: a nested event whose content.comment is a plain string holding a
\* slash command, with a derivable issue key and a valid secret, is
\* normalized to a non-empty comment and is processed: it is never answered
\* "ignored".
C11_StringCommentTriggers ==
  \A s \in Slots :
     (/\ inv[s].pc = "done"
      /\ inv[s].resp.status # 401
      /\ StringComment(inv[s].event)
      /\ parse_command(inv[s].event.body.v.d.content.d.comment).cmd # "none"
      /\ ExpectedKey(inv[s].event.body.v) # ""
      /\ GateOpen)
        => inv[s].resp.val # "ignored"

\* C12: the marker identifies one (issue key, comment id) pair: an
\* invocation is answered duplicate_ignored only when the marker it looked
\* up was recorded by an invocation with the same issue key and the same
\* comment id (an absent id and the id 0 are different ids).
C12_MarkerUnique ==
  \A s \in Slots :
     inv[s].resp.val = "duplicate_ignored" =>
        \E r \in recorders :
           /\ r.marker = Marker(s)
           /\ r.issue_key = inv[s].issue_key
           /\ r.comment = Get(inv[s].comment, "id")

\* The calls of step 6 of invocation s: the tracker reads made before the
\* recent comments were first obtained.
FetchStage(s) ==
  {i \in CallsOf(s, {"get_issue", "list_comments"}) :
     ~\E j \in CallsOf(s, {"list_comments"}) : j < i /\ inv[s].calls[j].ok}

BeforeSecrets == {"idle", "auth", "parse", "gate", "command", "idem_head", "idem_put"}

\* C14: without a tracker API key an invocation that gets as far as
\* resolving credentials returns 500 {"error": ...}, never 401, and no
\* invocation makes a tracker call, a generation call or a post.
C14_MissingApiKey ==
  settings.api_key = "" =>
    \A s \in Slots :
       /\ CallsOf(s, {"get_issue", "list_comments", "get_wiki",
                      "list_wiki_attachments", "post_comment", "invoke_model"}) = {}
       /\ inv[s].pc \in BeforeSecrets \cup {"secrets", "done", "crashed"}
       /\ (inv[s].pc = "done" /\ inv[s].cmd.cmd # "none"
              /\ inv[s].resp.val # "duplicate_ignored")
             => inv[s].resp = Response(500, "error", "BACKLOG_API_KEY not found")

\* C14 witness: the marker was recorded, then the key was found missing and
\* the invocation returned 500.
C14_Witness ==
  \E s \in Slots :
     /\ settings.api_key = ""
     /\ inv[s].recorded
     /\ inv[s].resp = Response(500, "error", "BACKLOG_API_KEY not found")

\* The posts of invocation s that carry a generated reply.
ReplyPosts(s) ==
  {i \in CallsOf(s, {"post_comment"}) : inv[s].calls[i].text # ErrorText}

\* C15: a failed post of the reply is the last external call of the
\* invocation: the invocation returns 500 with an error body, the post is
\* the only post (no retry, no apology) and the generation call that
\* succeeded before it is the last generation call.
C15_PostFailure ==
  \A s \in Slots :
     \A i \in ReplyPosts(s) :
        ~inv[s].calls[i].ok =>
           /\ i = Len(inv[s].calls)
           /\ inv[s].pc = "done"
           /\ inv[s].resp.status = 500 /\ inv[s].resp.kind = "error"
           /\ CallsOf(s, {"post_comment"}) = {i}
           /\ \E j \in CallsOf(s, {"invoke_model"}) :
                 /\ inv[s].calls[j].ok
                 /\ \A k \in CallsOf(s, {"invoke_model"}) : k <= j

\* C15 witness: the reply was generated at the second attempt, its post
\* failed and the invocation returned 500.
C15_Witness ==
  \E s \in Slots :
     /\ inv[s].pc = "done"
     /\ inv[s].resp.status = 500
     /\ Cardinality(CallsOf(s, {"invoke_model"})) = 2
     /\ \E i \in ReplyPosts(s) : ~inv[s].calls[i].ok

\* The elements of a sequence.
Range(q) == {q[i] : i \in 1..Len(q)}

\* The context URLs of the comment of invocation s.
ContextUrls(s) == extract_context_urls(Get(inv[s].comment, "content"))

\* The URL passes the allow-list and refers to an issue or a wiki page of
\* the tracker.
Resolvable(url) ==
  /\ allowlisted(url, settings.context_allowed_hosts)
  /\ \/ parse_backlog_issue_url(url, settings.backlog_base_url).key # <<>>
     \/ /\ parse_backlog_wiki_url(url, settings.backlog_base_url)[1]
        /\ parse_backlog_wiki_url(url, settings.backlog_base_url)[2] # 0

\* The tracker calls of invocation s made for context URLs.
ContextCalls(s) ==
  CallsOf(s, {"get_issue", "list_comments", "get_wiki", "list_wiki_attachments"})
     \ FetchStage(s)

\* The context loop of invocation s is over.
AfterContext(s) ==
  \/ inv[s].pc \in {"llm", "apology", "post"}
  \/ inv[s].pc = "done" /\ CallsOf(s, {"invoke_model"}) # {}

\* C16: a tracker call that fails while a context URL is resolved skips
\* that URL and nothing else: the URL gives no text and is not listed as
\* used, every other resolvable URL is still visited while the budget
\* lasts, the invocation goes on to the generation step and ends with one
\* of the responses of the generation and post steps.
C16_ContextFailuresAbsorbed ==
  \A s \in Slots :
     /\ Len(inv[s].ctx_errors)
          = Cardinality({i \in ContextCalls(s) : ~inv[s].calls[i].ok})
     /\ Range(inv[s].ctx_errors) \cap Range(inv[s].used_context_urls) = {}
     /\ Len(inv[s].context_texts) = Len(inv[s].used_context_urls)
     /\ inv[s].ctx_errors # <<>> =>
          /\ inv[s].pc # "crashed"
          /\ inv[s].pc = "done" =>
               /\ CallsOf(s, {"invoke_model"}) # {}
               /\ \/ inv[s].resp = Response(200, "result", "ok")
                  \/ inv[s].resp = Response(500, "error", "llm_failed")
                  \/ inv[s].resp = Response(500, "error", "backlog post failed: e")
     /\ (AfterContext(s)
           /\ SumSeq(inv[s].context_texts) < settings.context_total_max_bytes)
          => Range(inv[s].ctx_errors) \cup Range(inv[s].used_context_urls)
               = {u \in Range(ContextUrls(s)) : Resolvable(u)}

\* C16 witness: the first context URL failed, the second was used, and the
\* reply was posted.
C16_Witness ==
  \E s \in Slots :
     /\ inv[s].resp = Response(200, "result", "ok")
     /\ Len(ContextUrls(s)) >= 2
     /\ inv[s].ctx_errors = <<ContextUrls(s)[1]>>
     /\ inv[s].used_context_urls = <<ContextUrls(s)[2]>>

\* C17: at every point of the context loop and after it the sum of the
\* lengths of the collected context texts is at most
\* context_total_max_bytes.
C17_TotalBudget ==
  \A s \in Slots :
     SumSeq(inv[s].context_texts) <= settings.context_total_max_bytes

\* The text the generation service answered to invocation s.
GeneratedText(s) ==
  LET ok == {j \in CallsOf(s, {"invoke_model"}) : inv[s].calls[j].ok} IN
  inv[s].calls[CHOOSE j \in ok : TRUE].text

\* The footer naming the URLs us: the header, then one "- url" line per
\* URL, the lines separated by newlines.
RECURSIVE FooterLines(_, _)
FooterLines(us, i) ==
  IF i > Len(us) THEN ""
  ELSE (IF i > 1 THEN "\n" ELSE "") \o "- " \o Join(us[i]) \o FooterLines(us, i + 1)

\* The context URLs of the comment that were fetched without failure, in
\* the order of the comment.
FetchedUrls(s) ==
  SelectSeq(ContextUrls(s),
            LAMBDA u : u \in Range(inv[s].used_context_urls)
                       /\ u \notin Range(inv[s].ctx_errors))

\* C18: the reply posted is the generated text followed by the footer
\* exactly when the command is summary and a context URL was used; the
\* footer lists the used URLs, which are the URLs fetched without failure,
\* in the order of the comment; the replies to ask and update carry none.
C18_ContextFooter ==
  \A s \in Slots :
     \A i \in ReplyPosts(s) :
        /\ inv[s].used_context_urls = FetchedUrls(s)
        /\ inv[s].calls[i].text =
             GeneratedText(s) \o
               (IF inv[s].cmd.cmd = "summary" /\ FetchedUrls(s) # <<>>
                THEN FooterHeader \o FooterLines(FetchedUrls(s), 1)
                ELSE "")

\* C18 witness: a summary was posted with the footer naming the one URL
\* used, after another URL of the comment had failed.
C18_Witness ==
  \E s \in Slots :
     /\ inv[s].cmd.cmd = "summary"
     /\ inv[s].used_context_urls # <<>>
     /\ inv[s].ctx_errors # <<>>
     /\ \E i \in ReplyPosts(s) :
           /\ inv[s].calls[i].ok
           /\ inv[s].calls[i].text # GeneratedText(s)

\* C19: the text posted equals the text the generation service answered,
\* for ask and update always and for summary when no context URL was used.
C19_PostedAsIs ==
  \A s \in Slots :
     \A i \in CallsOf(s, {"post_comment"}) :
        (/\ \E j \in CallsOf(s, {"invoke_model"}) : inv[s].calls[j].ok
         /\ inv[s].cmd.cmd \in {"ask", "update"} \/ inv[s].used_context_urls = <<>>)
           => inv[s].calls[i].text = GeneratedText(s)

\* C19 witness: an empty answer to update was posted as it is.
C19_Witness ==
  \E s \in Slots :
     /\ inv[s].cmd.cmd = "update"
     /\ inv[s].resp = Response(200, "result", "ok")
     /\ GeneratedText(s) = ""
     /\ \E i \in CallsOf(s, {"post_comment"}) : inv[s].calls[i].text = ""

\* The user ids the payload gives for the author of the comment: the number
\* under createdUser.id, or the number a string there spells.
AuthorIds(comment) ==
  {n \in 0..MaxNum :
     /\ comment.t = "dict" /\ "createdUser" \in DOMAIN comment.d
     /\ comment.d.createdUser.t = "dict" /\ "id" \in DOMAIN comment.d.createdUser.d
     /\ comment.d.createdUser.d.id \in {Num(n), Str(ToString(n))}}

\* The event of slot s was normalized and its invocation has left the gate.
PastGate(s) ==
  /\ inv[s].parsed
  /\ inv[s].pc \notin {"idle", "auth", "parse", "gate", "crashed"}
  /\ "ignored_no_comment_or_issue" \notin Range(inv[s].log)

\* The gate turned the invocation in slot s away.
GateIgnored(s) ==
  /\ inv[s].pc = "done"
  /\ inv[s].resp = Response(200, "result", "ignored")
  /\ inv[s].log = <<"ignored_author_not_allowed">>
  /\ inv[s].calls = <<>>

\* C20: with require_mention false, a normalized event is turned away by the
\* gate as ignored exactly when the allow-list is not empty and holds none
\* of the author's ids; with an empty allow-list it always goes on to the
\* command parser, whoever is mentioned.
C20_OpenModeGate ==
  \A s \in Slots :
     (~settings.require_mention /\ PastGate(s)) =>
        /\ GateIgnored(s) <=>
             /\ settings.allowed_trigger_user_ids # {}
             /\ AuthorIds(inv[s].comment) \cap settings.allowed_trigger_user_ids = {}
        /\ ~GateIgnored(s) => "ignored_author_not_allowed" \notin Range(inv[s].log)

\* C20 witness: in open mode, with an allow-list and the bot's id
\* configured, a comment whose author is not on the list was turned away.
C20_Witness ==
  \E s \in Slots :
     /\ ~settings.require_mention
     /\ settings.allowed_trigger_user_ids # {}
     /\ settings.bot_user_id # 0
     /\ AuthorIds(inv[s].comment) # {}
     /\ GateIgnored(s)

\* The flattening calls that have returned.
FlattenDone == fn.done /\ fn.op \in {"backlog_issue_to_text", "backlog_wiki_to_text"}

\* The flattened text of the returned call before any truncation.
Untruncated ==
  IF fn.op = "backlog_issue_to_text"
  THEN JoinWith(IssueParts(fn.args.issue, fn.args.comments, fn.args.only_comment_id),
                <<"\n">>)
  ELSE JoinWith(WikiParts(fn.args.wiki, fn.args.attachments), <<"\n">>)

\* C21: for every max_chars the text returned by backlog_issue_to_text and
\* by backlog_wiki_to_text is at most max_chars long, and it ends with the
\* truncation marker whenever the untruncated text is longer than max_chars.
C21_TruncationBound ==
  FlattenDone =>
     /\ Len(fn.res) <= fn.args.max_chars
     /\ Len(Untruncated) > fn.args.max_chars =>
          fn.res # <<>> /\ fn.res[Len(fn.res)] = Ellipsis

\* The text of a comment: no characters for an absent one.
TextOf(content) == IF content.t = "text" THEN content.c ELSE <<>>

\* The keyword kw stands at position i of the text, in any case, after its
\* slash.
KeywordAt(text, i, kw) ==
  /\ i + Len(kw) <= Len(text)
  /\ text[i] = "/"
  /\ LowerSeq(SubSeq(text, i + 1, i + Len(kw))) = kw

\* The keyword at position i is a whole token: no word character directly
\* before the slash, none directly after the keyword.
WholeToken(text, i, kw) ==
  /\ KeywordAt(text, i, kw)
  /\ i > 1 => ~IsWordChar(text[i - 1])
  /\ i + Len(kw) < Len(text) => ~IsWordChar(text[i + Len(kw) + 1])

\* C22: parse_command finds no command in a text that holds none of
\* /summary, /ask, /update as a whole token.
C22_NoCommandWithoutToken ==
  (fn.done /\ fn.op = "parse_command") =>
     ((\A i \in 1..Len(TextOf(fn.args.text)) : \A k \in 1..Len(Keywords) :
          ~WholeToken(TextOf(fn.args.text), i, Keywords[k]))
        => fn.res = NoCmd)

\* The positions of the text where a keyword occurs, in any case, with no
\* word character directly after it.
Occurrences(text) ==
  {i \in 1..Len(text) :
     \E k \in 1..Len(Keywords) :
        /\ KeywordAt(text, i, Keywords[k])
        /\ i + Len(Keywords[k]) < Len(text) =>
             ~IsWordChar(text[i + Len(Keywords[k]) + 1])}

\* What the first keyword occurrence of the text stands for: the command in
\* lower case and, for ask, the rest of the text without the whitespace
\* around it.
FirstCommand(text) ==
  LET i == CHOOSE a \in Occurrences(text) : \A b \in Occurrences(text) : a <= b
      k == CHOOSE a \in 1..Len(Keywords) : KeywordAt(text, i, Keywords[a])
      rest == SubSeq(text, i + 1 + Len(Keywords[k]), Len(text))
  IN IF Keywords[k] = <<"a", "s", "k">>
     THEN [cmd |-> "ask", question |-> Strip(rest)]
     ELSE [cmd |-> KeywordName[k]]

\* C23: the result of parse_command is given by the first keyword occurrence
\* of the text: for ask, the command with the rest of the text, stripped, as
\* the question; for summary and update, the command alone.
C23_FirstOccurrenceDecides ==
  (fn.done /\ fn.op = "parse_command" /\ Occurrences(TextOf(fn.args.text)) # {}) =>
     fn.res = FirstCommand(TextOf(fn.args.text))

\* C23 witness: the question of two lines that follows /Ask was returned
\* without the whitespace around it.
C23_Witness ==
  /\ fn.done /\ fn.op = "parse_command"
  /\ fn.res = [cmd |-> "ask", question |-> <<"q", "\n", "r">>]
  /\ \E i \in 1..Len(fn.args.text.c) : fn.args.text.c[i] = "A"

\* The host of a URL: its network location without user information and
\* without port.
HostOf(url) ==
  LET n == urlparse(url).netloc
      h == AfterLast(n, <<"@">>)
      c == FirstOf(h, {":"})
  IN IF c = 0 THEN h ELSE SubSeq(h, 1, c - 1)

\* C24: allowlisted is true exactly when the allow-list is empty, or the
\* host of the URL equals an entry, or ends with "." followed by an entry.
C24_AllowlistByHost ==
  (fn.done /\ fn.op = "allowlisted") =>
     (fn.res <=>
        \/ fn.args.allowed_hosts = <<>>
        \/ \E i \in 1..Len(fn.args.allowed_hosts) :
              \/ HostOf(fn.args.url) = fn.args.allowed_hosts[i]
              \/ EndsWith(HostOf(fn.args.url), <<".">> \o fn.args.allowed_hosts[i]))

\* A token is a well-formed http or https URL: the scheme in any case, then
\* "//" and at least one character of a network location.
IsHttpToken(tok) ==
  \E p \in {<<"h", "t", "t", "p", ":", "/", "/">>, <<"h", "t", "t", "p", "s", ":", "/", "/">>} :
     /\ StartsWith(LowerSeq(tok), p)
     /\ Len(tok) > Len(p)
     /\ tok[Len(p) + 1] \notin {"/", "?", "#"}

\* The line, trimmed and lower-cased, starts with "context:".
IsContextLine(line) == StartsWith(LowerSeq(LStrip(line)), ContextPrefix)

\* The tokens that follow "context:" on the last such line of the text.
LastContextTokens(text) ==
  LET lines == SplitLines(text)
      last == CHOOSE i \in 1..Len(lines) :
                 /\ IsContextLine(lines[i])
                 /\ \A j \in (i + 1)..Len(lines) : ~IsContextLine(lines[j])
      after == SubSeq(LStrip(lines[last]), Len(ContextPrefix) + 1,
                      Len(LStrip(lines[last])))
  IN SplitWords(after)

\* C25: extract_context_urls returns, in their order, exactly the tokens of
\* the last "context:" line that are well-formed http or https URLs, and the
\* empty list for a text without such a line.
C25_ExtractContextUrls ==
  (fn.done /\ fn.op = "extract_context_urls") =>
     LET text == TextOf(fn.args.text) IN
     IF \E i \in 1..Len(SplitLines(text)) : IsContextLine(SplitLines(text)[i])
     THEN fn.res = SelectSeq(LastContextTokens(text), IsHttpToken)
     ELSE fn.res = <<>>

\* C25 witness: of a text with two "context:" lines the URL of the last
\* one was returned, the ftp token before it left out.
C25_Witness ==
  /\ fn.done /\ fn.op = "extract_context_urls"
  /\ StartsWith(TextOf(fn.args.text), <<"c", "o", "n", "t", "e", "x", "t", ":", " ", "h", "t", "t", "p", ":", "/", "/", "a", ".", "i", "o", "/", "1", "\n">>)
  /\ \E i \in 1..(Len(TextOf(fn.args.text)) - 2) :
        SubSeq(TextOf(fn.args.text), i, i + 2) = <<"f", "t", "p">>
  /\ fn.res = <<<<"H", "T", "T", "P", ":", "/", "/", "c", ".", "i", "o">>>>

\* The stage of the pipeline a call of invocation s belongs to, f being the
\* positions of its main-fetch calls: 1 idempotency, 2 main fetch,
\* 3 context, 4 generation, 5 post.
StageOf(s, i, f) ==
  CASE inv[s].calls[i].op \in {"head_object", "put_object"} -> 1
    [] i \in f -> 2
    [] inv[s].calls[i].op = "invoke_model" -> 4
    [] inv[s].calls[i].op = "post_comment" -> 5
    [] OTHER -> 3

\* C26: the external calls of an invocation follow the order of the
\* pipeline (idempotency, credential, main fetch, context, generation, one
\* post); a call is made only after the marker was put (when a bucket is
\* configured), the credential was found and the earlier main-fetch calls
\* succeeded; a generation call follows a successful main fetch, a reply
\* post directly follows a successful generation, an apology directly
\* follows the last failed attempt, and the post is the last call.
C26_PipelineOrder ==
  \A s \in Slots :
     LET f == FetchStage(s)
         c == inv[s].calls
     IN \A i \in 1..Len(c) :
          /\ i > 1 => StageOf(s, i - 1, f) <= StageOf(s, i, f)
          /\ i > 1 /\ (c[i - 1].op = "put_object" \/ i - 1 \in f) => c[i - 1].ok
          /\ StageOf(s, i, f) >= 2 =>
               /\ settings.api_key # ""
               /\ settings.idempotency_bucket # "" =>
                    \E j \in 1..(i - 1) : c[j].op = "put_object"
          /\ StageOf(s, i, f) >= 3 =>
               {c[j].op : j \in f} = {"get_issue", "list_comments"}
          /\ StageOf(s, i, f) = 5 =>
               /\ i = Len(c)
               /\ i > 1 /\ c[i - 1].op = "invoke_model"
               /\ c[i - 1].ok <=> c[i].text # ErrorText
               /\ ~c[i - 1].ok => AllAttemptsFailed(s)

\* C26 witness: an invocation went through every stage: marker put, main
\* fetch, a context fetch that failed and one that succeeded, a failed and
\* a successful generation attempt, the reply posted.
C26_Witness ==
  \E s \in Slots :
     /\ inv[s].resp = Response(200, "result", "ok")
     /\ \E i \in CallsOf(s, {"put_object"}) : inv[s].calls[i].ok
     /\ \E i \in ContextCalls(s) : ~inv[s].calls[i].ok
     /\ \E i \in ContextCalls(s) : inv[s].calls[i].ok
     /\ \E i \in CallsOf(s, {"invoke_model"}) : ~inv[s].calls[i].ok
     /\ ReplyPosts(s) # {}

\* C27: a marker once put stays in the store, and it turns every later
\* delivery of its event away.  Without an API key every invocation that
\* put its marker has ended with the 500 of the missing credential: an
\* invocation that begins after such a failure, for the same marker, is
\* answered duplicate_ignored, puts nothing and calls neither tracker nor
\* model.
C27_FailureKeepsMarker ==
  /\ passed \subseteq store
  /\ {r.marker : r \in recorders} \subseteq store
  /\ (settings.idempotency_bucket # "" /\ settings.api_key = "") =>
       \A s \in Slots :
          (Marker(s) \in inv[s].prior /\ inv[s].pc \in {"secrets", "done"}) =>
             /\ inv[s].resp = Response(200, "result", "duplicate_ignored")
             /\ CallsOf(s, {"put_object"}) = {}

\* The responses of an invocation that ends before the generation step:
\* 401, ignored, duplicate_ignored, the missing credential, a failed fetch.
EndsEarly(s) ==
  /\ inv[s].pc = "done"
  /\ \/ inv[s].resp.status = 401
     \/ inv[s].resp.val \in {"ignored", "duplicate_ignored", "BACKLOG_API_KEY not found"}
     \/ "backlog_fetch_error" \in Range(inv[s].log)

\* C28: an invocation attempts at most one post: the reply, after a
\* successful generation, or the apology, after every attempt failed; and
\* none when it ends with 401, ignored, duplicate_ignored, the error of the
\* missing credential or the error of a failed fetch.
C28_AtMostOnePost ==
  \A s \in Slots :
     LET posts == CallsOf(s, {"post_comment"}) IN
     /\ Cardinality(posts) <= 1
     /\ \A i \in posts :
          IF inv[s].calls[i].text = ErrorText
          THEN AllAttemptsFailed(s)
          ELSE \E j \in CallsOf(s, {"invoke_model"}) : j < i /\ inv[s].calls[j].ok
     /\ EndsEarly(s) => posts = {}

\* C28 witness: the post of the apology failed and was the only post of an
\* invocation that returned llm_failed.
C28_Witness ==
  \E s \in Slots :
     /\ inv[s].pc = "done"
     /\ inv[s].resp = Response(500, "error", "llm_failed")
     /\ \E i \in CallsOf(s, {"post_comment"}) :
           /\ ~inv[s].calls[i].ok
           /\ inv[s].calls[i].text = ErrorText
           /\ CallsOf(s, {"post_comment"}) = {i}

\* C29: an invocation that ends with {"result":"ignored"} has made no
\* external call (no read of the idempotency store, no tracker call, no
\* model call) and has put no marker.
C29_IgnoredTouchesNothing ==
  \A s \in Slots :
     (inv[s].pc = "done" /\ inv[s].resp = Response(200, "result", "ignored")) =>
        /\ inv[s].calls = <<>>
        /\ ~inv[s].recorded
        /\ \A r \in recorders : r.id # inv[s].id

\* C29 witness: with a bucket configured, a comment without command was
\* answered ignored after an earlier invocation had put a marker.
C29_Witness ==
  \E s \in Slots :
     /\ settings.idempotency_bucket # ""
     /\ inv[s].pc = "done"
     /\ inv[s].log = <<"ignored_no_command">>
     /\ inv[s].resp = Response(200, "result", "ignored")
     /\ store # {}

\* The issue keys the context URLs of the comment of invocation s refer to.
ReferencedKeys(s) ==
  {Join(parse_backlog_issue_url(u, settings.backlog_base_url).key) :
     u \in Range(ContextUrls(s))} \ {""}

\* C30: the calls made for a context URL that refers to an issue are keyed
\* by the issue key of the URL: the get-issue call, and the list-comments
\* call that follows it, name the same referenced issue.
C30_ContextIssueKey ==
  \A s \in Slots :
     LET c == inv[s].calls IN
     \A i \in ContextCalls(s) :
        /\ c[i].op = "get_issue" => c[i].target \in ReferencedKeys(s)
        /\ c[i].op = "list_comments" =>
             /\ c[i - 1].op = "get_issue"
             /\ c[i].target = c[i - 1].target

\* The URL passes the allow-list, is on the network location of the base
\* URL, and its path is an issue view or a wiki view.
Fetchable(url) ==
  LET u == urlparse(url) IN
  /\ u.netloc = urlparse(settings.backlog_base_url).netloc
  /\ StartsWith(u.path, ViewPrefix) \/ StartsWith(u.path, WikiPrefix)
  /\ allowlisted(url, settings.context_allowed_hosts)

\* The context URLs of invocation s the loop has taken up so far.
TakenUp(s) ==
  LET us == ContextUrls(s)
      n == Len(us) - Len(inv[s].urls)
          + (IF inv[s].pc \in {"ctx_get_issue", "ctx_list_comments",
                               "ctx_get_wiki", "ctx_list_attachments"}
             THEN 1 ELSE 0)
  IN SubSeq(us, 1, n)

ContextLabel == <<"\n", "\n", "X", ":", "\n">>

\* The text p occurs in the text s.
OccursIn(p, s) ==
  \E i \in 1..(Len(s) - Len(p) + 1) : SubSeq(s, i, i + Len(p) - 1) = p

\* C32: each of the three prompt builders ends the prompt with the context
\* section, holding the first two context texts in order, when the list of
\* context texts is not empty, and builds a prompt without a context
\* section when the list is empty.
C32_ContextInPrompt ==
  (fn.done /\ fn.op = "build_prompt") =>
     LET c == fn.args.context_texts IN
     IF c = <<>> THEN ~OccursIn(ContextLabel, fn.res)
     ELSE EndsWith(fn.res, ContextLabel \o JoinWith(SubSeq(c, 1, IF Len(c) < 2 THEN Len(c) ELSE 2),
                                                  <<"\n">>))

\* The statement of C32 for the summary and the ask builder alone.
SummaryAskContextInPrompt ==
  (fn.done /\ fn.op = "build_prompt" /\ fn.args.kind # "update") =>
     LET c == fn.args.context_texts IN
     /\ c = <<>> => ~OccursIn(ContextLabel, fn.res)
     /\ c # <<>> =>
          /\ EndsWith(fn.res, ContextLabel \o JoinWith(SubSeq(c, 1, IF Len(c) < 2 THEN Len(c) ELSE 2),
                                                     <<"\n">>))
          /\ Len(c) > 2 => ~OccursIn(c[3], fn.res)

\* The line of the flattened text for the comment c.
LineOf(c) ==
  <<"-", " ", "[">> \o c.created \o <<"]", " ">> \o c.author \o <<":", " ">>
    \o Strip(c.content)

RECURSIVE LinesOf(_)
LinesOf(cs) == IF cs = <<>> THEN <<>> ELSE <<LineOf(Head(cs))>> \o LinesOf(Tail(cs))

\* The comments the flattened text is to hold: the one with the id of the
\* fragment when the URL carries a comment id, else all of them.
WantedComments(url, comments) ==
  LET k == parse_backlog_issue_url(url, settings.backlog_base_url) IN
  IF k.has_comment THEN SelectSeq(comments, LAMBDA c : c.id = k.comment) ELSE comments

\* C33: the text of an issue reference whose URL carries the fragment
\* comment-<digits> holds the line of the fetched comment with that id and
\* of no other comment; the text of a reference without comment id holds
\* the lines of all fetched comments, in the order fetched.
C33_CommentSelection ==
  (fn.done /\ fn.op = "context_issue_text") =>
     LET cs == fn.args.comments
         want == WantedComments(fn.args.url, cs)
     IN /\ \A i \in 1..Len(cs) :
             OccursIn(<<"\n">> \o LineOf(cs[i]), fn.res) <=> cs[i] \in Range(want)
        /\ want # <<>> => EndsWith(fn.res, JoinWith(LinesOf(want), <<"\n">>))

\* The positions of the used context URLs the footer of the reply text
\* names: the reply is the answer followed by the footer of some of the
\* URLs, in order.
ListedInFooter(reply_text, used_context_urls) ==
  LET n == Len(used_context_urls)
      Pick(I) == SelectSeq([i \in 1..n |-> IF i \in I THEN used_context_urls[i] ELSE <<>>],
                           LAMBDA u : u # <<>>)
  IN UNION {I \in SUBSET (1..n) :
              I # {} /\ reply_text = "out" \o FooterHeader \o FooterLines(Pick(I), 1)}

DecisionNames(resp) ==
  CASE resp = Response(401, "error", "unauthorized") -> {"auth_failed"}
    [] resp = Response(200, "result", "ignored") ->
         {"ignored_no_comment_or_issue", "ignored_no_mention",
          "ignored_author_not_allowed", "ignored_no_command"}
    [] resp = Response(200, "result", "duplicate_ignored") -> {"duplicate_ignored"}
    [] resp = Response(500, "error", "BACKLOG_API_KEY not found") ->
         {"config_error_missing_api_key"}
    [] resp = Response(500, "error", "backlog fetch failed: e") -> {"backlog_fetch_error"}
    [] resp = Response(500, "error", "llm_failed") -> {"llm_failed"}
    [] resp = Response(500, "error", "backlog post failed: e") -> {"backlog_post_error"}
    [] resp = Response(200, "result", "ok") -> {"ok"}
    [] OTHER -> {}

\* The records that name a decision point at which lambda_handler returns.
TerminalNames ==
  {"auth_failed", "ignored_no_comment_or_issue", "ignored_no_mention",
   "ignored_author_not_allowed", "ignored_no_command", "duplicate_ignored",
   "config_error_missing_api_key", "backlog_fetch_error", "llm_failed",
   "backlog_post_error", "ok"}

\* C35: an invocation that has returned a response has logged exactly one
\* record naming a decision point, that record is the last of its log and
\* names the decision point of the response; an invocation that has not
\* returned has no response and has logged no such record, except the
\* llm_failed record that precedes the post of the apology.
C35_ReturnAfterOneRecord ==
  \A s \in Slots :
     LET log == inv[s].log
         terminal == {i \in 1..Len(log) : log[i] \in TerminalNames}
     IN /\ inv[s].resp # NoResp <=> inv[s].pc = "done"
        /\ inv[s].pc = "done" =>
             /\ terminal = {Len(log)}
             /\ log # <<>>
             /\ log[Len(log)] \in DecisionNames(inv[s].resp)
        /\ inv[s].pc \notin {"done", "apology"} => terminal = {}
        /\ inv[s].pc = "apology" => terminal = {Len(log)} /\ log[Len(log)] = "llm_failed"

\* C35 witness: an invocation returned llm_failed after its retries, the
\* llm_failed record being the last of a log that holds earlier records.
C35_Witness ==
  \E s \in Slots :
     /\ inv[s].pc = "done"
     /\ inv[s].resp = Response(500, "error", "llm_failed")
     /\ Len(inv[s].log) > 2
     /\ inv[s].log[Len(inv[s].log)] = "llm_failed"
     /\ "llm_retry" \in Range(inv[s].log)

\* The invocation of slot s is running: called and not yet ended.
Running(s) == inv[s].pc \notin {"idle", "done", "crashed"}

\* The loops of an invocation are bounded: at most max(1, llm_max_retries)
\* generation calls, at most one fetch per context URL, and at most one
\* call of every other operation.
LoopsBounded(s) ==
  /\ Cardinality(CallsOf(s, {"invoke_model"})) <= RetryBound
  /\ Cardinality(ContextCalls(s) \cap CallsOf(s, {"get_issue", "get_wiki"}))
       <= Len(ContextUrls(s))
  /\ Cardinality(ContextCalls(s) \cap CallsOf(s, {"list_comments", "list_wiki_attachments"}))
       <= Len(ContextUrls(s))
  /\ Cardinality(FetchStage(s)) <= 2
  /\ \A op \in {"head_object", "put_object", "post_comment"} :
       Cardinality(CallsOf(s, {op})) <= 1

\* A measure of the work left to an invocation: the steps still ahead, the
\* context URLs still to take up and the generation attempts still allowed.
Rank(r) ==
  (CASE r.pc = "auth" -> 60 [] r.pc = "parse" -> 59 [] r.pc = "gate" -> 58
     [] r.pc = "command" -> 57 [] r.pc = "idem_head" -> 56 [] r.pc = "idem_put" -> 55
     [] r.pc = "secrets" -> 54 [] r.pc = "fetch_issue" -> 53
     [] r.pc = "fetch_comments" -> 52
     [] r.pc = "context" -> 23 + 3 * Len(r.urls)
     [] r.pc \in {"ctx_get_issue", "ctx_get_wiki"} -> 22 + 3 * Len(r.urls)
     [] r.pc \in {"ctx_list_comments", "ctx_list_attachments"} -> 21 + 3 * Len(r.urls)
     [] r.pc = "llm" -> 10 + MaxAttempts - r.attempts
     [] r.pc = "post" -> 6 [] r.pc = "apology" -> 5
     [] OTHER -> 0)

\* Every step of a running invocation lowers its measure, which is a
\* natural number: no invocation runs for ever.
StepsDescend ==
  [][\A s \in Slots :
       (Running(s) /\ inv'[s] # inv[s]) =>
          Rank(inv'[s]) < Rank(inv[s]) /\ Rank(inv'[s]) >= 0]_vars

\* C36: every invocation ends with a response, its loops being bounded: the
\* retry loop by max(1, llm_max_retries), the context loop by the number
\* of context URLs, and no other operation is repeated.
C36_EndsWithResponse ==
  \A s \in Slots :
     /\ LoopsBounded(s)
     /\ (~Running(s) /\ inv[s].pc # "idle") =>
          inv[s].pc = "done" /\ inv[s].resp # NoResp

====
